---- MODULE Spec2Model ----
(***************************************************************************)
(* The HR-WSI production pipeline: Harvester, Triggerer, Orchestrator and  *)
(* Launcher, coupled through the relational store and its LISTEN/NOTIFY    *)
(* channels.  Tables are sets of rows, channels and in-memory queues are   *)
(* sequences, the wall clock counts minutes.  Measurement days are day     *)
(* numbers (the YYYYMMDD integers of the store, in calendar order).        *)
(***************************************************************************)
EXTENDS Integers, Sequences, FiniteSets, TLC

VARIABLES
    now,                    \* wall clock, in minutes
    wekeo_api_manager,      \* systemparams.wekeo_api_manager: input_type -> the dates of the row
    triggerer_config,       \* systemparams.triggerer_config: product_type -> last_processing_date
    user_interface,         \* CommandLineUserInterface: [environ, manager, error]
    scheduler,              \* Scheduler of the process manager: [jobs, thread, stop_event,
                            \*   submitted, completed, shutdown, stop]
    harvester,              \* Harvester process: [alive, continuous_harvester, rule,
                            \*   past_recovery, harvest_dates, answer]
    upstream,               \* ids the catalog / the product registry can still deliver
    raw_inputs,             \* hrwsi.raw_inputs
    trigger_validation,     \* hrwsi.trigger_validation
    raw2valid,              \* hrwsi.raw2valid, rows <<trigger_validation_id, raw_input_id>>
    processing_tasks,       \* hrwsi.processing_tasks
    products,               \* hrwsi.products, as the trigger_validation ids having a product
    nomad_job_dispatch,     \* hrwsi.nomad_job_dispatch, the dispatch uuids
    pt2nomad,               \* hrwsi.processingtask2nomad, rows <<nomad_job_id, processing_task_id>>
    psw,                    \* hrwsi.processing_status_workflow
    allocs,                 \* the scheduler's allocations
    trig,                   \* Triggerer process: [pc, consuming, notifies, queue, orphan_ref]
    orch,                   \* Orchestrator process: [listening, consuming, notifies, queue]
    launcher                \* Launcher process: [flavour, listening, alive, notifies, queue,
                            \*   set, stopping, tasks, unit]

vars == <<now, wekeo_api_manager, triggerer_config, user_interface, scheduler, harvester,
          upstream,
          raw_inputs, trigger_validation, raw2valid, processing_tasks,
          products, nomad_job_dispatch, pt2nomad, psw, allocs, trig, orch, launcher>>

store == <<raw_inputs, trigger_validation, raw2valid, processing_tasks, products,
           nomad_job_dispatch, pt2nomad, psw>>

(***************************************************************************)
(* Bounds of the model.                                                    *)
(***************************************************************************)
MaxTV == 3          \* trigger_validation rows
MaxQueue == 3       \* length of a channel backlog or of an in-memory queue
MaxDispatch == 3    \* dispatches (scheduler allocations)
MaxTime == 120      \* minutes the clock runs
MaxStatus == 2      \* processing_status_workflow rows
MaxRuns == 2        \* runs the scheduler submits to its pool

(***************************************************************************)
(* Time.                                                                   *)
(***************************************************************************)
MinutesPerDay == 1440
StartDay == 100
StartTime == StartDay * MinutesPerDay
DayOf(t) == t \div MinutesPerDay

\* None / SQL NULL: a missing row, and a missing day
NULL == [id |-> "None"]
NoDay == 0
NoCode == "NULL"

(***************************************************************************)
(* Configuration (config.yaml, tile list, valid tile/track tables,         *)
(* systemparams): input data of the services.                              *)
(***************************************************************************)
tile_list == {"31TCH"}
valid_tile_track_sws == [t \in {"T31TCH"} |-> {8}]
valid_tile_track_wics1 == [t \in {"T31TCH"} |-> {}]
valid_tile_track_wds == [t \in {"T31TCH"} |-> {8}]
max_day_since_publication_date == 7
max_day_since_measurement_date == 30
nrt_harvest_start_date == 0     \* systemparams.wekeo_api_manager in normal operation: NULL

\* dict.get(f"T{tile}", [])
ValidOrbit(ref_dict, tile) ==
    IF ("T" \o tile) \in DOMAIN ref_dict THEN ref_dict["T" \o tile] ELSE {}

(***************************************************************************)
(* The items the external catalog and the product registry hold.  An item  *)
(* becomes a raw_inputs row when it is inserted (harvesting_date = NOW()). *)
(***************************************************************************)
Item(ptc, tile, day, orbit, partial, start, stop, pub) ==
    [product_type_code |-> ptc, tile |-> tile, measurement_day |-> day,
     relative_orbit_number |-> orbit, is_partial |-> partial,
     start |-> start, stop |-> stop, publishing_date |-> pub]

Items ==
    [i \in {"g1", "p1", "p2", "l1", "l2", "a1", "s1", "f1", "f2", "a2", "f3", "f4",
           "p3", "l0", "l7", "f5", "f6", "l9", "p4"} |->
        CASE i = "g1" -> Item("IW_GRDH_1S", "31TCH", StartDay, 8, FALSE, 0, 1, StartTime - 60)
          [] i = "p1" -> Item("IW_GRDH_1S", "31TCH", StartDay, 8, TRUE, 1, 2, StartTime - 60)
          [] i = "p2" -> Item("IW_GRDH_1S", "31TCH", StartDay, 8, TRUE, 2, 3, StartTime - 60)
          [] i = "l1" -> Item("S2MSI1C", "31TCH", StartDay - 1, 0, FALSE, 0, 0, StartTime - 600)
          [] i = "l2" -> Item("S2MSI1C", "31TCH", StartDay, 0, FALSE, 0, 0, StartTime - 60)
          [] i = "a1" -> Item("S2_MAJA_L2A", "31TCH", StartDay - 1, 0, FALSE, 0, 0, StartTime)
          [] i = "s1" -> Item("S1_NRB_L2A", "31TCH", StartDay, 8, FALSE, 0, 0, StartTime)
          [] i = "f1" -> Item("S2_FSC_L2B", "31TCH", StartDay, 0, FALSE, 0, 0, StartTime)
          [] i = "f2" -> Item("S2_FSC_L2B", "31TCH", StartDay, 0, FALSE, 0, 0, StartTime)
          [] i = "a2" -> Item("S2_MAJA_L2A", "31TCH", StartDay - 9, 0, FALSE, 0, 0, StartTime)
          [] i = "f3" -> Item("S2_FSC_L2B", "31TCH", StartDay - 1, 0, FALSE, 0, 0, StartTime)
          [] i = "f4" -> Item("S2_FSC_L2B", "31TCH", StartDay - 1, 0, FALSE, 0, 0, StartTime)
          [] i = "p3" -> Item("IW_GRDH_1S", "31TCH", StartDay, 110, TRUE, 5, 6, StartTime - 120)
          [] i = "l0" -> Item("S2MSI1C", "31TCH", 45, 0, FALSE, 0, 0, 45 * MinutesPerDay)
          [] i = "l7" -> Item("S2MSI1C", "31TCH", 48, 0, FALSE, 0, 0, 48 * MinutesPerDay)
          [] i = "f5" -> Item("S2_FSC_L2B", "31TCH", 49, 0, FALSE, 0, 0, 49 * MinutesPerDay)
          [] i = "f6" -> Item("S2_FSC_L2B", "31TCH", 51, 0, FALSE, 0, 0, 51 * MinutesPerDay)
          [] i = "l9" -> Item("S2MSI1C", "31TCH", 52, 0, FALSE, 0, 0, 52 * MinutesPerDay)
          [] i = "p4" -> Item("IW_GRDH_1S", "31TCH", StartDay, 8, TRUE, 5, 6, StartTime - 60)]

RawInputRow(i, harv) ==
    [id |-> i, product_type_code |-> Items[i].product_type_code, tile |-> Items[i].tile,
     measurement_day |-> Items[i].measurement_day,
     relative_orbit_number |-> Items[i].relative_orbit_number,
     is_partial |-> Items[i].is_partial, start |-> Items[i].start, stop |-> Items[i].stop,
     publishing_date |-> Items[i].publishing_date, harvesting_date |-> harv]

(***************************************************************************)
(* Sequences helpers.                                                      *)
(***************************************************************************)
Range(s) == {s[k] : k \in DOMAIN s}
Orderings(S) == {s \in [1..Cardinality(S) -> S] : Range(s) = S}
\* the rows of a result set, in an order the query leaves open
SeqOf(S) == CHOOSE s \in Orderings(S) : TRUE

\* LISTEN/NOTIFY: a payload reaches the sessions that listen when it is sent.
Deliver(listening, notifies, payloads) ==
    IF listening THEN notifies \o payloads ELSE notifies

(***************************************************************************)
(* Harvester.                                                              *)
(***************************************************************************)
catalog_types == {"IW_GRDH_1S", "S2MSI1C"}
eligible_product_list == {"S2_MAJA_L2A", "S1_NRB_L2A", "S2_FSC_L2B"}

\* the insert without its ON CONFLICT clause
InsertCandidateNoConflictClause(table, i, t) == table \cup {RawInputRow(i, t)}
\* INSERT INTO hrwsi.raw_inputs ... ON CONFLICT (id) DO NOTHING
INSERT_CANDIDATE_REQUEST(table, i, t) ==
    IF \E r \in table : r.id = i THEN table ELSE table \cup {RawInputRow(i, t)}

\* The rows a statement has added, as the insert trigger of raw_inputs
\* publishes them on input_insertion.
InsertedRows(before, after) == SeqOf(after \ before)

\* identify_new_candidate: candidates already in the table are dropped.
identify_new_candidate(table, candidates) ==
    {i \in candidates : ~\E r \in table : r.id = i}

\* harvest_input, one catalog answer holding candidate i
HarvestInput(i) ==
    /\ upstream[i] > 0
    /\ Items[i].product_type_code \in catalog_types
    /\ LET new_input == identify_new_candidate(raw_inputs, {i})
           after == IF i \in new_input
                    THEN INSERT_CANDIDATE_REQUEST(raw_inputs, i, now)
                    ELSE raw_inputs
       IN  /\ raw_inputs' = after
           /\ trig' = [trig EXCEPT !.notifies =
                          Deliver(trig.pc # "down", @, InsertedRows(raw_inputs, after))]
    /\ upstream' = [upstream EXCEPT ![i] = @ - 1]
    /\ UNCHANGED <<now, wekeo_api_manager, triggerer_config, user_interface, scheduler, harvester, trigger_validation, raw2valid, processing_tasks, products,
                   nomad_job_dispatch, pt2nomad, psw, allocs, orch, launcher>>

\* handle_notify / handle_product_notification: a product_insertion payload
HandleProductNotification(i) ==
    /\ upstream[i] > 0
    /\ Items[i].product_type_code \in eligible_product_list
    /\ LET after == INSERT_CANDIDATE_REQUEST(raw_inputs, i, now)
       IN  /\ raw_inputs' = after
           /\ trig' = [trig EXCEPT !.notifies =
                          Deliver(trig.pc # "down", @, InsertedRows(raw_inputs, after))]
    /\ upstream' = [upstream EXCEPT ![i] = @ - 1]
    /\ UNCHANGED <<now, wekeo_api_manager, triggerer_config, user_interface, scheduler, harvester, trigger_validation, raw2valid, processing_tasks, products,
                   nomad_job_dispatch, pt2nomad, psw, allocs, orch, launcher>>

\* a row of systemparams.wekeo_api_manager; 0 is NULL
WekeoRow(nrt_start, archive_start, archive_end) ==
    [nrt_harvest_start_date |-> nrt_start,
     archive_harvest_start_date |-> archive_start,
     archive_harvest_end_date |-> archive_end]

\* an update that stores the day before the start date
SetHarvestStartDatesBack(harvesting_run_mode, row) ==
    IF harvesting_run_mode = "nrt"
    THEN [row EXCEPT !.nrt_harvest_start_date = @ - 1]
    ELSE [row EXCEPT !.archive_harvest_start_date = @ - 1]
\* UPDATE systemparams.wekeo_api_manager SET ... = NULL, with the columns of
\* unset_harvest_date_map for the run mode
UNSET_HARVEST_START_DATES(harvesting_run_mode, row) ==
    IF harvesting_run_mode = "nrt"
    THEN [row EXCEPT !.nrt_harvest_start_date = 0]
    ELSE [row EXCEPT !.archive_harvest_start_date = 0, !.archive_harvest_end_date = 0]

\* harvest_input, after a harvest of the past: UNSET_HARVEST_START_DATES sets
\* nrt_harvest_start_date to NULL for every input type.
UnsetHarvestStartDates ==
    /\ harvester.alive
    /\ \E t \in DOMAIN wekeo_api_manager : wekeo_api_manager[t].nrt_harvest_start_date # 0
    /\ wekeo_api_manager' = [t \in DOMAIN wekeo_api_manager |->
                                UNSET_HARVEST_START_DATES("nrt", wekeo_api_manager[t])]
    /\ UNCHANGED <<now, triggerer_config, user_interface, scheduler, harvester, upstream, store, allocs, trig, orch,
                   launcher>>

(***************************************************************************)
(* Harvester: harvest_input rule by rule.  harvester.rule is the position  *)
(* of harvest_input in the rows of GET_WEKEO_API_MANAGER_PARAMS: 0 outside *)
(* harvest_input, k while row k is the next one of the current round,      *)
(* Len + 1 at the end of a round.  harvest_dates holds the start dates of  *)
(* the next chunk of each rule (0 is None).                                *)
(***************************************************************************)
wekeo_rules == <<"S2MSI1C", "IW_GRDH_1S">>

\* What get_candidate_inputs gives for one window: the candidates of the
\* catalog, nothing after a transport error, or the error itself.
CatalogAnswers == {"candidates", "transport_error", "raised"}

\* the Harvester once create_loop has started continuous_harvest_input
HarvesterAtStart ==
    [alive |-> TRUE, continuous_harvester |-> TRUE, rule |-> 0,
     past_recovery |-> FALSE,
     harvest_dates |-> [t \in {"S2MSI1C", "IW_GRDH_1S"} |-> 0],
     answer |-> "candidates",
     harvesting_run_mode |-> "nrt",
     harvest_end_dates |-> [t \in {"S2MSI1C", "IW_GRDH_1S"} |-> 0],
     queried |-> <<>>, failed |-> {}]

\* extract_harvest_dates: the start and the end column of the run mode; the
\* rows of normal operation have no nrt_harvest_end_date
extract_harvest_dates(config_data, harvesting_run_mode) ==
    [start |-> [t \in DOMAIN config_data |->
                   IF harvesting_run_mode = "nrt"
                   THEN config_data[t].nrt_harvest_start_date
                   ELSE config_data[t].archive_harvest_start_date],
     end |-> [t \in DOMAIN config_data |->
                   IF harvesting_run_mode = "nrt" THEN 0
                   ELSE config_data[t].archive_harvest_end_date]]

\* a chunk that ends the day before its start
PreviousHarvestStartDate(current_harvest_start_date) == current_harvest_start_date - 1
\* current_harvest_start_date + timedelta(days=deltaday_furthest_date)
next_harvest_start_date(current_harvest_start_date) == current_harvest_start_date + 1

\* continuous_harvest_input wakes up and enters harvest_input: the rules are
\* read, extract_harvest_dates gives the start dates and past_recovery is set.
HarvestInputBegin ==
    /\ harvester.alive
    /\ harvester.continuous_harvester
    /\ harvester.rule = 0
    /\ harvester' = [harvester EXCEPT
           !.continuous_harvester = FALSE,
           !.rule = 1,
           !.harvest_dates =
               extract_harvest_dates(wekeo_api_manager, harvester.harvesting_run_mode).start,
           !.harvest_end_dates =
               extract_harvest_dates(wekeo_api_manager, harvester.harvesting_run_mode).end,
           !.past_recovery =
               \E t \in DOMAIN wekeo_api_manager :
                  extract_harvest_dates(wekeo_api_manager,
                                        harvester.harvesting_run_mode).start[t] # 0,
           !.queried = <<>>, !.failed = {}]
    /\ UNCHANGED <<now, wekeo_api_manager, triggerer_config, user_interface, scheduler, upstream, store, allocs, trig, orch, launcher>>

\* the rule of this step queries the catalog
CallsCatalog ==
    /\ harvester.rule \in DOMAIN wekeo_rules
    /\ harvester.past_recovery =>
          LET current_harvest_start_date == harvester.harvest_dates[wekeo_rules[harvester.rule]]
              closing_date == IF harvester.harvesting_run_mode = "nrt" THEN DayOf(now)
                              ELSE harvester.harvest_end_dates[wekeo_rules[harvester.rule]]
          IN  current_harvest_start_date # 0 /\ current_harvest_start_date <= closing_date

\* the candidates of one window: past recovery asks for the publication days
\* from the start date to the next one, normal operation up to now
Candidates(input_type, past_recovery, current_harvest_start_date) ==
    {i \in DOMAIN Items :
        /\ upstream[i] > 0
        /\ Items[i].product_type_code = input_type
        /\ past_recovery =>
              /\ current_harvest_start_date <= DayOf(Items[i].publishing_date)
              /\ DayOf(Items[i].publishing_date) <= current_harvest_start_date + 1}

RECURSIVE InsertCandidates(_, _)
InsertCandidates(table, new_input) ==
    IF new_input = {} THEN table
    ELSE LET i == CHOOSE x \in new_input : TRUE
         IN  InsertCandidates(INSERT_CANDIDATE_REQUEST(table, i, now), new_input \ {i})

\* harvest_input, one rule of the for loop.  In past recovery the start date
\* of the rule is moved to the end of the chunk before the catalog is asked.
\* harvest_input catches nothing: an exception of get_candidate_inputs ends
\* it and reaches continuous_harvest_input, whose try encloses its loop.
HarvestRule(answer) ==
    /\ harvester.alive
    /\ harvester.rule \in DOMAIN wekeo_rules
    /\ LET input_type == wekeo_rules[harvester.rule]
           current_harvest_start_date == harvester.harvest_dates[input_type]
           harvest_dates ==
               IF harvester.past_recovery
               THEN [harvester.harvest_dates EXCEPT ![input_type] =
                        IF CallsCatalog
                        THEN next_harvest_start_date(current_harvest_start_date) ELSE 0]
               ELSE harvester.harvest_dates
           all_candidates == IF CallsCatalog /\ answer = "candidates"
                             THEN Candidates(input_type, harvester.past_recovery,
                                             current_harvest_start_date)
                             ELSE {}
           after == InsertCandidates(raw_inputs,
                                     identify_new_candidate(raw_inputs, all_candidates))
           \* the windows asked for in a harvest of the past, and those whose
           \* call failed, as the log of harvest_input shows them
           window == [input_type |-> input_type,
                      min_publication_date |-> current_harvest_start_date,
                      max_publication_date |-> harvest_dates[input_type]]
           queried == IF CallsCatalog /\ harvester.past_recovery
                      THEN Append(harvester.queried, window) ELSE harvester.queried
           failed == IF CallsCatalog /\ harvester.past_recovery /\ answer # "candidates"
                     THEN harvester.failed \cup {window} ELSE harvester.failed
       IN  /\ ~CallsCatalog => answer = "candidates"
           /\ raw_inputs' = after
           /\ trig' = [trig EXCEPT !.notifies =
                          Deliver(trig.pc # "down", @, InsertedRows(raw_inputs, after))]
           /\ upstream' = [i \in DOMAIN upstream |->
                              IF i \in all_candidates THEN upstream[i] - 1 ELSE upstream[i]]
           /\ harvester' =
                 IF CallsCatalog /\ answer = "raised"
                 THEN [harvester EXCEPT !.alive = FALSE, !.rule = 0, !.answer = answer,
                                        !.harvest_dates = harvest_dates,
                                        !.queried = queried, !.failed = failed]
                 ELSE [harvester EXCEPT !.rule = @ + 1, !.answer = answer,
                                        !.harvest_dates = harvest_dates,
                                        !.queried = queried, !.failed = failed]
    /\ UNCHANGED <<now, wekeo_api_manager, triggerer_config, user_interface, scheduler, trigger_validation, raw2valid, processing_tasks,
                   products, nomad_job_dispatch, pt2nomad, psw, allocs, orch, launcher>>

\* harvest_input, after the last rule of a round: another round while a start
\* date is left; else, after a past recovery, UNSET_HARVEST_START_DATES for
\* every rule, and continuous_harvester is set again.
HarvestInputEnd ==
    /\ harvester.alive
    /\ harvester.rule = Len(wekeo_rules) + 1
    /\ LET finished_harvesting ==
               \A t \in DOMAIN harvester.harvest_dates : harvester.harvest_dates[t] = 0
       IN  IF finished_harvesting
           THEN /\ wekeo_api_manager' =
                      IF harvester.past_recovery
                      THEN [t \in DOMAIN wekeo_api_manager |->
                               UNSET_HARVEST_START_DATES(harvester.harvesting_run_mode,
                                                         wekeo_api_manager[t])]
                      ELSE wekeo_api_manager
                /\ harvester' = [harvester EXCEPT !.rule = 0, !.continuous_harvester = TRUE]
           ELSE /\ harvester' = [harvester EXCEPT !.rule = 1]
                /\ UNCHANGED wekeo_api_manager
    /\ UNCHANGED <<now, triggerer_config, user_interface, scheduler, upstream, store, allocs, trig, orch, launcher>>

(***************************************************************************)
(* Triggerer: the queries and the triggering conditions.  A handler runs   *)
(* its statements one after the other on an autocommit cursor; db is the   *)
(* part of the store it writes: [tv, r2v], with out the raw2valid rows     *)
(* published so far and err set once an exception has been raised.         *)
(***************************************************************************)
Db(tv, r2v) == [tv |-> tv, r2v |-> r2v, out |-> <<>>, err |-> FALSE]

calculate_publication_and_measurement_deadlines ==
    [earliest_acceptable_measurement_date |-> DayOf(now) - max_day_since_measurement_date,
     earliest_acceptable_publication_date |-> DayOf(now) - max_day_since_publication_date]

\* strptime(harvesting_date[:10]).date()
production_date(raw_input) == DayOf(raw_input.harvesting_date)

\* SELECT NOT EXISTS (...): TRUE when no validation of tc_name references the input
IS_ONE_TRIGGER_VALIDATION_EXISTS_FOR_AN_INPUT(db, raw_input_id, tc_name) ==
    ~\E t \in db.tv : /\ t.triggering_condition_name = tc_name
                      /\ <<t.id, raw_input_id>> \in db.r2v

\* the request without its filter on ri.product_type_code
InputsOfSameTileAndDay(ptc, measurement_day, tile, earliest) ==
    {r \in raw_inputs : /\ r.measurement_day = measurement_day
                        /\ r.tile = tile
                        /\ DayOf(r.harvesting_date) >= earliest}

IS_INPUT_SHARE_SAME_TILE_AND_MEASUREMENT_DAY(ptc, measurement_day, tile, earliest) ==
    {r \in raw_inputs : /\ r.product_type_code = ptc
                        /\ r.measurement_day = measurement_day
                        /\ r.tile = tile
                        /\ DayOf(r.harvesting_date) >= earliest}

\* GET_PAST_HARVEST_DATE_REQ: int(nrt_harvest_start_date or 0)
get_nrt_harvesting_date(product_type_code) ==
    IF product_type_code \in {"S2MSI1C", "IW_GRDH_1S"}
    THEN wekeo_api_manager[product_type_code].nrt_harvest_start_date
    ELSE 0

ThreeHours == 180

\* the classification without the branch of the past harvest date
IsNrtFromNowOnly(nrt_start_date, raw_input) ==
    /\ raw_input.harvesting_date >= raw_input.publishing_date
    /\ raw_input.harvesting_date <= raw_input.publishing_date + ThreeHours
is_raw_input_nrt(nrt_start_date, raw_input) ==
    IF nrt_start_date # 0
    THEN raw_input.measurement_day >= nrt_start_date
    ELSE /\ raw_input.harvesting_date >= raw_input.publishing_date
         /\ raw_input.harvesting_date <= raw_input.publishing_date + ThreeHours

\* The first element inserts the trigger_validation row; the raw2valid rows
\* are inserted by one statement after the loop.  An element that is None
\* raises when it is subscripted.
create_trigger_validation(db, data, tc_name, artificial_measurement_day) ==
    IF db.err \/ data = <<>> THEN db
    ELSE IF data[1] = NULL THEN [db EXCEPT !.err = TRUE]
    ELSE
        LET trigger_validation_id == Cardinality(db.tv) + 1
            is_nrt == is_raw_input_nrt(get_nrt_harvesting_date(data[1].product_type_code),
                                       data[1])
            row == [id |-> trigger_validation_id, triggering_condition_name |-> tc_name,
                    validation_date |-> now, is_nrt |-> is_nrt,
                    artificial_measurement_day |-> artificial_measurement_day]
            raw2valid_data == [k \in DOMAIN data |->
                                 <<trigger_validation_id,
                                   data[k].id>>]
        IN  IF \E k \in DOMAIN data : data[k] = NULL
            THEN [db EXCEPT !.tv = @ \cup {row}, !.err = TRUE]
            ELSE [db EXCEPT !.tv = @ \cup {row},
                            !.r2v = @ \cup Range(raw2valid_data),
                            !.out = @ \o raw2valid_data]

validate_wics2_fsc_tc(db, notify_input, triggering_condition) ==
    /\ production_date(notify_input)
          >= calculate_publication_and_measurement_deadlines.earliest_acceptable_publication_date
    /\ IS_ONE_TRIGGER_VALIDATION_EXISTS_FOR_AN_INPUT(db, notify_input.id, triggering_condition)

validate_wics1_or_sws_tc(db, notify_input, tc_name) ==
    LET ref_dict == IF tc_name = "SWS_TC" THEN valid_tile_track_sws ELSE valid_tile_track_wics1
    IN  /\ production_date(notify_input)
              >= calculate_publication_and_measurement_deadlines.earliest_acceptable_publication_date
        /\ notify_input.relative_orbit_number \in ValidOrbit(ref_dict, notify_input.tile)
        /\ IS_ONE_TRIGGER_VALIDATION_EXISTS_FOR_AN_INPUT(db, notify_input.id, tc_name)

get_product_having_same_tile_and_same_measurement_day(earliest, day, ptc, id, tile) ==
    SeqOf({r \in IS_INPUT_SHARE_SAME_TILE_AND_MEASUREMENT_DAY(ptc, day, tile, earliest) :
              r.id # id})

\* ORDER BY ri.harvesting_date DESC LIMIT 1
LatestHarvested(rows) ==
    IF rows = {} THEN NULL
    ELSE CHOOSE r \in rows : \A q \in rows : q.harvesting_date <= r.harvesting_date

validate_wds_tc(db, notify_input) ==
    LET earliest == calculate_publication_and_measurement_deadlines.earliest_acceptable_publication_date
        valid_orbit == ValidOrbit(valid_tile_track_wds, notify_input.tile)
        status == /\ production_date(notify_input) >= earliest
                  /\ IS_ONE_TRIGGER_VALIDATION_EXISTS_FOR_AN_INPUT(db, notify_input.id, "WDS_TC")
        sig0 == LatestHarvested(IS_INPUT_SHARE_SAME_TILE_AND_MEASUREMENT_DAY(
                    "S1_NRB_L2A", notify_input.measurement_day, notify_input.tile, earliest))
        fsc_ids == get_product_having_same_tile_and_same_measurement_day(
                    earliest, notify_input.measurement_day, "S2_FSC_L2B",
                    notify_input.id, notify_input.tile)
    IN  IF ~status THEN [is_eligible |-> FALSE, fsc_ids |-> <<>>, sig0 |-> NULL]
        ELSE IF notify_input.product_type_code = "S2_FSC_L2B"
        THEN IF sig0 # NULL /\ sig0.relative_orbit_number \in valid_orbit
             THEN [is_eligible |-> TRUE, fsc_ids |-> fsc_ids, sig0 |-> sig0]
             ELSE [is_eligible |-> FALSE, fsc_ids |-> <<>>, sig0 |-> sig0]
        ELSE IF notify_input.relative_orbit_number \in valid_orbit
             THEN [is_eligible |-> fsc_ids # <<>>, fsc_ids |-> fsc_ids, sig0 |-> NULL]
             ELSE [is_eligible |-> FALSE, fsc_ids |-> <<>>, sig0 |-> NULL]

CreateIf(cond, db, data, tc_name) ==
    IF cond THEN create_trigger_validation(db, data, tc_name, NoDay) ELSE db

handle_triggering_condition(db, raw_input) ==
    LET input_type == raw_input.product_type_code
        inputs == <<raw_input>>
    IN  CASE input_type = "IW_GRDH_1S" ->
                CreateIf(~raw_input.is_partial, db, inputs, "Backscatter_10m_TC")
          [] input_type = "S2_MAJA_L2A" ->
                LET wics2 == validate_wics2_fsc_tc(db, raw_input, "WICS2_TC")
                    fsc == validate_wics2_fsc_tc(db, raw_input, "FSC_TC")
                IN  CreateIf(fsc, CreateIf(wics2, db, inputs, "WICS2_TC"), inputs, "FSC_TC")
          [] input_type = "S1_NRB_L2A" ->
                LET db1 == CreateIf(raw_input.tile \in tile_list
                                    /\ validate_wics1_or_sws_tc(db, raw_input, "SWS_TC"),
                                    db, inputs, "SWS_TC")
                    db2 == CreateIf(validate_wics1_or_sws_tc(db1, raw_input, "WICS1_TC"),
                                    db1, inputs, "WICS1_TC")
                    wds == validate_wds_tc(db2, raw_input)
                IN  CreateIf(wds.is_eligible, db2, inputs \o wds.fsc_ids, "WDS_TC")
          [] input_type = "S2_FSC_L2B" ->
                LET wds == validate_wds_tc(db, raw_input)
                IN  CreateIf(wds.is_eligible, db, Append(inputs, wds.sig0), "WDS_TC")
          [] OTHER -> db

(***************************************************************************)
(* Triggerer: the process.  pc is "down" before LISTEN, "listening"        *)
(* between LISTEN and the re-notification of the unprocessed inputs, and   *)
(* "running" once the event loop runs.                                     *)
(***************************************************************************)
NRT_TC_INPUTS_PAIRS ==
    <<[tc |-> "Backscatter_10m_TC", ptc |-> "IW_GRDH_1S"],
      [tc |-> "CC_TC", ptc |-> "S2MSI1C"],
      [tc |-> "FSC_TC", ptc |-> "S2_MAJA_L2A"],
      [tc |-> "WICS2_TC", ptc |-> "S2_MAJA_L2A"],
      [tc |-> "SWS_TC", ptc |-> "S1_NRB_L2A"],
      [tc |-> "WICS1_TC", ptc |-> "S1_NRB_L2A"],
      [tc |-> "WDS_TC", ptc |-> "S2_FSC_L2B"]>>

GET_UNPROCESSED_RAW_INPUTS_REQUEST(ptc, tc_name) ==
    {r \in raw_inputs :
        /\ r.product_type_code = ptc
        /\ ~\E t \in trigger_validation : /\ t.triggering_condition_name = tc_name
                                          /\ <<t.id, r.id>> \in raw2valid}

RECURSIVE Flatten(_)
Flatten(ss) == IF ss = <<>> THEN <<>> ELSE ss[1] \o Flatten(Tail(ss))

\* get_statements_to_notify_again: one NOTIFY per row of the request
get_statements_to_notify_again(rows) == SeqOf(rows)

TriggererListen ==
    /\ trig.pc = "down"
    /\ trig' = [trig EXCEPT !.pc = "listening"]
    /\ UNCHANGED <<now, wekeo_api_manager, triggerer_config, user_interface, scheduler, harvester, upstream, store, allocs, orch, launcher>>

TriggererNotifyAgain ==
    /\ trig.pc = "listening"
    /\ LET again == Flatten([k \in DOMAIN NRT_TC_INPUTS_PAIRS |->
                        get_statements_to_notify_again(
                            GET_UNPROCESSED_RAW_INPUTS_REQUEST(NRT_TC_INPUTS_PAIRS[k].ptc,
                                                               NRT_TC_INPUTS_PAIRS[k].tc))])
       IN  /\ Len(trig.notifies) + Len(again) <= MaxQueue
           /\ trig' = [trig EXCEPT !.pc = "running", !.notifies = @ \o again]
    /\ UNCHANGED <<now, wekeo_api_manager, triggerer_config, user_interface, scheduler, harvester, upstream, store, allocs, orch, launcher>>

\* handle_notify: conn.poll(), every pending notification goes to inputs_queue
TriggererHandleNotify ==
    /\ trig.pc = "running"
    /\ trig.notifies # <<>>
    /\ Len(trig.queue) + Len(trig.notifies) <= MaxQueue
    /\ trig' = [trig EXCEPT !.queue = @ \o trig.notifies, !.notifies = <<>>]
    /\ UNCHANGED <<now, wekeo_api_manager, triggerer_config, user_interface, scheduler, harvester, upstream, store, allocs, orch, launcher>>

\* a payload of input_insertion without the is_partial key of a GRDH input
PayloadWithoutIsPartial == [id |-> "x1", product_type_code |-> "IW_GRDH_1S"]

\* raw_input['is_partial'] raises KeyError
TriggeringConditionRaises(queue_item) ==
    /\ queue_item.product_type_code = "IW_GRDH_1S"
    /\ "is_partial" \notin DOMAIN queue_item

\* a NOTIFY on input_insertion that the insert trigger of raw_inputs did not build
TriggererForeignNotify ==
    /\ trig.pc # "down"
    /\ Len(trig.notifies) + Len(trig.queue) < MaxQueue
    /\ trig' = [trig EXCEPT !.notifies = Append(@, PayloadWithoutIsPartial)]
    /\ UNCHANGED <<now, wekeo_api_manager, triggerer_config, user_interface, scheduler, harvester, upstream, store, allocs, orch, launcher>>

\* handle_raw_input: one item of inputs_queue through handle_triggering_condition.
\* The try of handle_raw_input encloses its loop: an exception of
\* handle_triggering_condition is logged and the coroutine returns.
TriggererHandleRawInput ==
    /\ trig.pc = "running"
    /\ trig.consuming
    /\ trig.queue # <<>>
    /\ IF TriggeringConditionRaises(Head(trig.queue))
       THEN /\ trig' = [trig EXCEPT !.queue = Tail(@), !.consuming = FALSE]
            /\ UNCHANGED <<trigger_validation, raw2valid, orch>>
       ELSE /\ LET db == handle_triggering_condition(Db(trigger_validation, raw2valid),
                                                     Head(trig.queue))
               IN  /\ Cardinality(db.tv) <= MaxTV
                   /\ trigger_validation' = db.tv
                   /\ raw2valid' = db.r2v
                   /\ orch' = [orch EXCEPT !.notifies = Deliver(orch.listening, @, db.out)]
            /\ trig' = [trig EXCEPT !.queue = Tail(@)]
    /\ UNCHANGED <<now, wekeo_api_manager, triggerer_config, user_interface, scheduler, harvester, upstream,
                   raw_inputs, processing_tasks, products,
                   nomad_job_dispatch, pt2nomad, psw, allocs, launcher>>

(***************************************************************************)
(* Triggerer: the periodic L1C pass.                                       *)
(***************************************************************************)
\* the dispatches of a task and the status rows of a dispatch
DispatchesOf(pt_id) == {e[1] : e \in {x \in pt2nomad : x[2] = pt_id}}
StatusesOf(njd_id) == {w \in psw : w.nomad_job_dispatch_fk_id = njd_id}

BETWEEN(x, lo, hi) == lo <= x /\ x <= hi

\* the raw inputs a validation of db references
DbInputsOf(db, tv_id) == {r \in raw_inputs : <<tv_id, r.id>> \in db.r2v}
CcValidations(db) == {t \in db.tv : t.triggering_condition_name = "CC_TC"}

\* the request ordered by measurement_day from the latest to the earliest
L1cUnprocessedLatestFirst(db) ==
    LET rows == {r \in raw_inputs : /\ r.product_type_code = "S2MSI1C"
                                    /\ ~\E e \in db.r2v : e[2] = r.id}
    IN  CHOOSE s \in Orderings(rows) :
            \A i, j \in DOMAIN s : i < j => s[i].measurement_day >= s[j].measurement_day

\* ORDER BY ri.measurement_day
GET_L1C_UNPROCESSED(db) ==
    LET rows == {r \in raw_inputs : /\ r.product_type_code = "S2MSI1C"
                                    /\ ~\E e \in db.r2v : e[2] = r.id}
    IN  CHOOSE s \in Orderings(rows) :
            \A i, j \in DOMAIN s : i < j => s[i].measurement_day <= s[j].measurement_day

\* tiles of the open CC tasks one of whose dispatches has a status row with
\* an exit code (MAX(psw.exit_code) IS NOT NULL)
COUNT_UNFINISHED_CC_PT_ON_TILE_AND_DATE_INTERVAL(db, earliest) ==
    {r.tile : r \in UNION {DbInputsOf(db, pt.trigger_validation_fk_id) \cap
                              {x \in raw_inputs : x.measurement_day > earliest} :
                 pt \in {q \in processing_tasks :
                            /\ ~q.has_ended
                            /\ \E t \in CcValidations(db) : t.id = q.trigger_validation_fk_id
                            /\ \E d \in DispatchesOf(q.id) : \E w \in StatusesOf(d) :
                                  w.exit_code # NoCode}}}

\* tiles of the CC tasks without a PT2Nomad row
COUNT_UNDISPATCHED_CC_PT_ON_TILE_AND_DATE_INTERVAL(db, earliest) ==
    {r.tile : r \in UNION {DbInputsOf(db, pt.trigger_validation_fk_id) \cap
                              {x \in raw_inputs : x.measurement_day > earliest} :
                 pt \in {q \in processing_tasks :
                            /\ \E t \in CcValidations(db) : t.id = q.trigger_validation_fk_id
                            /\ DispatchesOf(q.id) = {}}}}

IS_PREVIOUS_L2A_EXISTS_FOR_THIS_TC_TILE_AND_MEASUREMENT_DAY_INTERVAL(db, tile, lo, hi) ==
    \E pt \in processing_tasks : \E t \in CcValidations(db) :
        /\ pt.trigger_validation_fk_id = t.id
        /\ t.id \in products
        /\ \E r \in DbInputsOf(db, t.id) : r.tile = tile /\ BETWEEN(r.measurement_day, lo, hi)

UNPROCESSED_TV_EXISTS_FOR_THIS_TC_TILE_AND_MEASUREMENT_DAY_INTERVAL(db, tile, lo, hi) ==
    \E t \in CcValidations(db) :
        /\ \E r \in DbInputsOf(db, t.id) : r.tile = tile /\ BETWEEN(r.measurement_day, lo, hi)
        /\ ~\E pt \in processing_tasks : pt.trigger_validation_fk_id = t.id

\* ORDER BY measurement_day DESC LIMIT 1; fetchone() is None without a row
IS_L2A_EXISTS_REQUEST(tile, lo, hi) ==
    LET rows == {r \in raw_inputs : /\ r.product_type_code = "S2_MAJA_L2A"
                                    /\ r.tile = tile
                                    /\ BETWEEN(r.measurement_day, lo, hi)}
    IN  IF rows = {} THEN NULL
        ELSE CHOOSE r \in rows : \A x \in rows : x.measurement_day <= r.measurement_day

eligible_previous_l2a_exists(db, raw_input) ==
    IS_PREVIOUS_L2A_EXISTS_FOR_THIS_TC_TILE_AND_MEASUREMENT_DAY_INTERVAL(
        db, raw_input.tile, raw_input.measurement_day - 90, raw_input.measurement_day)

eligible_previous_tv_exists(db, raw_input) ==
    UNPROCESSED_TV_EXISTS_FOR_THIS_TC_TILE_AND_MEASUREMENT_DAY_INTERVAL(
        db, raw_input.tile, raw_input.measurement_day - 90, raw_input.measurement_day)

is_l2a_exists(raw_input) ==
    IS_L2A_EXISTS_REQUEST(raw_input.tile, raw_input.measurement_day - 90,
                          raw_input.measurement_day)

validate_cc_tc(notify_input) ==
    /\ notify_input.tile \in tile_list
    /\ DayOf(notify_input.publishing_date)
          >= calculate_publication_and_measurement_deadlines.earliest_acceptable_publication_date
    /\ notify_input.measurement_day
          >= calculate_publication_and_measurement_deadlines.earliest_acceptable_measurement_date

\* one turn of the loop of get_unprocessed_l1c; blocked are the tiles the
\* two COUNT requests returned before the loop.  An exception ends the loop.
L1cTurn(st, raw_input, blocked) ==
    LET tile == raw_input.tile
        db == st.db
        created ==
            IF ~eligible_previous_tv_exists(db, raw_input) /\ tile \notin blocked
            THEN IF ~eligible_previous_l2a_exists(db, raw_input)
                 THEN create_trigger_validation(db, <<raw_input>>, "CC_TC", NoDay)
                 ELSE create_trigger_validation(db, <<raw_input, is_l2a_exists(raw_input)>>,
                                                "CC_TC", NoDay)
            ELSE db
    IN  IF db.err \/ st.invalid_tiles = tile_list \/ tile \in st.invalid_tiles THEN st
        ELSE IF ~validate_cc_tc(raw_input) THEN st
        ELSE [db |-> created,
              invalid_tiles |-> IF created.err THEN st.invalid_tiles
                                ELSE st.invalid_tiles \cup {tile}]

RECURSIVE L1cLoop(_, _, _)
L1cLoop(st, unprocessed_l1c, blocked) ==
    IF unprocessed_l1c = <<>> THEN st
    ELSE L1cLoop(L1cTurn(st, Head(unprocessed_l1c), blocked), Tail(unprocessed_l1c), blocked)

get_unprocessed_l1c(db) ==
    LET earliest ==
            calculate_publication_and_measurement_deadlines.earliest_acceptable_measurement_date
        unprocessed_pt_tiles == COUNT_UNFINISHED_CC_PT_ON_TILE_AND_DATE_INTERVAL(db, earliest)
        to_be_dispatched_pt_tiles ==
            COUNT_UNDISPATCHED_CC_PT_ON_TILE_AND_DATE_INTERVAL(db, earliest)
    IN  L1cLoop([db |-> db, invalid_tiles |-> {}], GET_L1C_UNPROCESSED(db),
                unprocessed_pt_tiles \cup to_be_dispatched_pt_tiles).db

\* handle_l1c_raw_inputs, one pass
TriggererHandleL1cRawInputs ==
    /\ trig.pc = "running"
    /\ LET db == get_unprocessed_l1c(Db(trigger_validation, raw2valid))
       IN  /\ Cardinality(db.tv) <= MaxTV
           /\ trigger_validation' = db.tv
           /\ raw2valid' = db.r2v
           /\ orch' = [orch EXCEPT !.notifies = Deliver(orch.listening, @, db.out)]
    /\ UNCHANGED <<now, wekeo_api_manager, triggerer_config, user_interface, scheduler, harvester, upstream,
                   raw_inputs, processing_tasks, products,
                   nomad_job_dispatch, pt2nomad, psw, allocs, trig, launcher>>

(***************************************************************************)
(* Triggerer: the periodic pass over the partial GRDH.                     *)
(***************************************************************************)
TwoHours == 120         \* harvesting_latest_date
SevenDays == 7 * MinutesPerDay

\* the request without its NOT EXISTS clause
GrdhPartialsOfLastSevenDays(db) ==
    {r \in raw_inputs : /\ r.product_type_code = "IW_GRDH_1S"
                        /\ r.is_partial
                        /\ r.harvesting_date >= now - SevenDays}
\* the partial GRDH of the last 7 days that no validation references
GET_GRDH_UNPROCESSED(db) ==
    {r \in raw_inputs : /\ r.product_type_code = "IW_GRDH_1S"
                        /\ r.is_partial
                        /\ r.harvesting_date >= now - SevenDays
                        /\ ~\E e \in db.r2v : e[2] = r.id}

\* f"{tile}_{measurement_day}_{relative_orbit_number}"
GrdhKey(raw_input) ==
    <<raw_input.tile, raw_input.measurement_day, raw_input.relative_orbit_number>>

\* iw_grdh_1s_list: the rows of each key, in the order of the result set
iw_grdh_1s_list(rows) ==
    [key \in {GrdhKey(r) : r \in rows} |-> SeqOf({r \in rows : GrdhKey(r) = key})]

\* the start and stop times of the two product names
AdjacentProducts(product1, product2) ==
    product1.stop = product2.start \/ product1.start = product2.stop

\* the filter of the orphans by the tiles and days of the last orphans:
\* without a reference list the orphans are kept; otherwise those of a tile
\* and a measurement day of the reference list are removed
FilterOrphans(orphan_grdh, orphan_ref) ==
    IF orphan_ref = <<>> THEN orphan_grdh
    ELSE LET orphan_ref_set == {<<r.tile, r.measurement_day>> : r \in Range(orphan_ref)}
         IN  SelectSeq(orphan_grdh,
                       LAMBDA item : <<item.tile, item.measurement_day>> \notin orphan_ref_set)

\* the orphans that have waited 2 hours, the pairs, and the new reference list
get_unprocessed_grdh(db, orphan_ref) ==
    LET groups == iw_grdh_1s_list(GET_GRDH_UNPROCESSED(db))
        orphan_grdh ==
            SeqOf({groups[key][1] : key \in
                     {k \in DOMAIN groups : /\ Len(groups[k]) < 2
                                            /\ groups[k][1].harvesting_date + TwoHours <= now}})
        grdh_pairs ==
            SeqOf({groups[key] : key \in
                     {k \in DOMAIN groups : /\ Len(groups[k]) >= 2
                                            /\ AdjacentProducts(groups[k][1], groups[k][2])}})
    IN  [orphan_grdh_list |-> FilterOrphans(orphan_grdh, orphan_ref),
         grdh_pairs_list |-> grdh_pairs,
         orphan_ref |-> orphan_grdh]

\* create_trigger_validation for every element of a list of lists of inputs
RECURSIVE CreateForEach(_, _, _)
CreateForEach(db, lists, tc_name) ==
    IF lists = <<>> THEN db
    ELSE CreateForEach(create_trigger_validation(db, Head(lists), tc_name, NoDay),
                       Tail(lists), tc_name)

\* handle_grdh_raw_inputs, one pass: the orphans one by one, then the pairs
handle_grdh_raw_inputs ==
    /\ trig.pc = "running"
    /\ LET db0 == Db(trigger_validation, raw2valid)
           res == get_unprocessed_grdh(db0, trig.orphan_ref)
           db1 == CreateForEach(db0, [k \in DOMAIN res.orphan_grdh_list |->
                                         <<res.orphan_grdh_list[k]>>],
                                "Backscatter_10m_TC")
           db == CreateForEach(db1, res.grdh_pairs_list, "Backscatter_10m_TC")
       IN  /\ Cardinality(db.tv) <= MaxTV
           /\ trigger_validation' = db.tv
           /\ raw2valid' = db.r2v
           /\ trig' = [trig EXCEPT !.orphan_ref = res.orphan_ref]
           /\ orch' = [orch EXCEPT !.notifies = Deliver(orch.listening, @, db.out)]
    /\ UNCHANGED <<now, wekeo_api_manager, triggerer_config, user_interface, scheduler, harvester, upstream,
                   raw_inputs, processing_tasks, products,
                   nomad_job_dispatch, pt2nomad, psw, allocs, launcher>>

\* The service is stopped and started again: the session and the queue are lost.
TriggererRestart ==
    /\ trig.pc = "running"
    /\ trig' = [pc |-> "down", consuming |-> TRUE, notifies |-> <<>>,
                queue |-> <<>>, orphan_ref |-> <<>>]
    /\ UNCHANGED <<now, wekeo_api_manager, triggerer_config, user_interface, scheduler, harvester, upstream, store, allocs, orch, launcher>>

(***************************************************************************)
(* Triggerer: the scheduled GFSC rule (every 6 h).  The persistent         *)
(* bookmark is the row of GFSC_L2C in systemparams.triggerer_config; the   *)
(* loop walks a local copy of it up to yesterday.                          *)
(***************************************************************************)
TriggererConfig(last_processing_date) ==
    [product_type \in {"GFSC_L2C"} |-> last_processing_date]

\* SELECT last_processing_date FROM systemparams.triggerer_config WHERE product_type = ...
GET_LAST_PROCESSING_DATE(product_type) == triggerer_config[product_type]

\* UPDATE systemparams.triggerer_config SET last_processing_date = ...
\* WHERE product_type = 'GFSC_L2C'
SET_LAST_GFSC_PROCESSING_DATE(config, updated_gfsc_processing_date) ==
    [config EXCEPT !["GFSC_L2C"] = updated_gfsc_processing_date]

\* relevant_tasks: the open tasks of the rules joined with their inputs of
\* the day; count1 the rows without a PT2Nomad edge, count2 the dispatches
\* whose latest status row is neither processed (2) nor terminated (6).  A
\* dispatch without a status row has no latest row and is not counted.
NB_OF_NOT_SUCCESSFULLY_PROCESSED_TASK_FOR_A_DAY_AND_SPECIFICS_ROUTINES(db, tc_names, day) ==
    LET relevant_tasks ==
            {x \in processing_tasks \X raw_inputs :
                /\ ~x[1].has_ended
                /\ \E t \in db.tv : /\ t.id = x[1].trigger_validation_fk_id
                                    /\ t.triggering_condition_name \in tc_names
                /\ <<x[1].trigger_validation_fk_id, x[2].id>> \in db.r2v
                /\ x[2].measurement_day = day}
        count1 == Cardinality({x \in relevant_tasks : DispatchesOf(x[1].id) = {}})
        latest_status ==
            {w \in psw : /\ \E x \in relevant_tasks :
                              w.nomad_job_dispatch_fk_id \in DispatchesOf(x[1].id)
                         /\ \A v \in StatusesOf(w.nomad_job_dispatch_fk_id) : v.n <= w.n}
        count2 == Cardinality({w \in latest_status : w.processing_status_id \notin {2, 6}})
    IN  count1 + count2

GET_ALL_FSC_AND_SWS_IN_THE_LAST_7_DAYS(tile, lo, hi) ==
    SeqOf({r \in raw_inputs : /\ r.product_type_code \in {"S2_FSC_L2B", "S1_SWS_L2B"}
                              /\ r.tile = tile
                              /\ BETWEEN(r.measurement_day, lo, hi)})

\* a request that finds no validation
NoGfscTcExists(db, selected_inputs, tc_name, day) == FALSE
\* candidate_triggers: the validations of the rule and the day that reference
\* as many of the selected inputs as there are; exact_match_triggers: those
\* of them with no other input
GFSC_TC_ALREADY_EXIST(db, selected_inputs, tc_name, day) ==
    \E t \in db.tv :
        /\ t.triggering_condition_name = tc_name
        /\ t.artificial_measurement_day = day
        /\ Cardinality({e \in db.r2v : e[1] = t.id /\ e[2] \in selected_inputs})
              = Cardinality(selected_inputs)
        /\ Cardinality({e \in db.r2v : e[1] = t.id}) = Cardinality(selected_inputs)
        /\ \A e \in db.r2v : e[1] = t.id => e[2] \in selected_inputs

\* the loop over self.tile_list on a clean day
RECURSIVE GfscTiles(_, _, _)
GfscTiles(db, tiles, last_gfsc_processing_date) ==
    IF tiles = <<>> \/ db.err THEN db
    ELSE
        LET fsc_and_sws_products_in_the_last_7_days ==
                GET_ALL_FSC_AND_SWS_IN_THE_LAST_7_DAYS(Head(tiles),
                                                       last_gfsc_processing_date - 7,
                                                       last_gfsc_processing_date)
            ids == {r.id : r \in Range(fsc_and_sws_products_in_the_last_7_days)}
            created ==
                IF /\ fsc_and_sws_products_in_the_last_7_days # <<>>
                   /\ ~GFSC_TC_ALREADY_EXIST(db, ids, "GFSC_TC", last_gfsc_processing_date)
                THEN create_trigger_validation(db, fsc_and_sws_products_in_the_last_7_days,
                                               "GFSC_TC", last_gfsc_processing_date)
                ELSE db
        IN  GfscTiles(created, Tail(tiles), last_gfsc_processing_date)

\* a day with a task that is not successfully processed, with the flag kept
GfscFailedDayKeepsFlag(st) ==
    [st EXCEPT !.last_gfsc_processing_date = @ + 7]
\* a day with a task that is not successfully processed: the bookmark is no
\* longer written in this run, the local date moves on by 7 days
GfscFailedDay(st) ==
    [st EXCEPT !.flag_update_gfsc_date_in_db = FALSE,
               !.last_gfsc_processing_date = @ + 7]

\* a clean day: the validations of the tiles, then the date moves on by one
\* day, in the table too while the flag is set
GfscCleanDay(st) ==
    LET updated_gfsc_processing_date == st.last_gfsc_processing_date + 1
        db == GfscTiles(st.db, SeqOf(tile_list), st.last_gfsc_processing_date)
    IN  IF db.err THEN [st EXCEPT !.db = db]
        ELSE [st EXCEPT !.db = db,
                        !.config = IF st.flag_update_gfsc_date_in_db
                                   THEN SET_LAST_GFSC_PROCESSING_DATE(
                                            @, updated_gfsc_processing_date)
                                   ELSE @,
                        !.last_gfsc_processing_date = updated_gfsc_processing_date]

\* while last_gfsc_processing_date < today_int
RECURSIVE GfscLoop(_)
GfscLoop(st) ==
    LET today_int == DayOf(now)
        day == st.last_gfsc_processing_date
        nb_of_GRD_L1C_not_successfully_processed ==
            NB_OF_NOT_SUCCESSFULLY_PROCESSED_TASK_FOR_A_DAY_AND_SPECIFICS_ROUTINES(
                st.db, {"CC_TC", "Backscatter_10m_TC"}, day)
        nb_of_FSC_SWS_not_successfully_processed ==
            NB_OF_NOT_SUCCESSFULLY_PROCESSED_TASK_FOR_A_DAY_AND_SPECIFICS_ROUTINES(
                st.db, {"FSC_TC", "SWS_TC"}, day)
    IN  IF st.db.err \/ ~(day < today_int) THEN st
        ELSE IF nb_of_GRD_L1C_not_successfully_processed
                   + nb_of_FSC_SWS_not_successfully_processed # 0
        THEN GfscLoop(GfscFailedDay(st))
        ELSE GfscLoop(GfscCleanDay(st))

\* gfsc_daily_tasks, one run of the scheduled job
gfsc_daily_tasks ==
    /\ trig.pc = "running"
    /\ LET st == GfscLoop([db |-> Db(trigger_validation, raw2valid),
                           config |-> triggerer_config,
                           last_gfsc_processing_date |->
                               GET_LAST_PROCESSING_DATE("GFSC_L2C"),
                           flag_update_gfsc_date_in_db |-> TRUE])
       IN  /\ Cardinality(st.db.tv) <= MaxTV
           /\ trigger_validation' = st.db.tv
           /\ raw2valid' = st.db.r2v
           /\ triggerer_config' = st.config
           /\ orch' = [orch EXCEPT !.notifies = Deliver(orch.listening, @, st.db.out)]
    /\ UNCHANGED <<now, wekeo_api_manager, user_interface, scheduler, harvester, upstream,
                   raw_inputs, processing_tasks, products,
                   nomad_job_dispatch, pt2nomad, psw, allocs, trig, launcher>>

(***************************************************************************)
(* Orchestrator.                                                           *)
(***************************************************************************)
Flavours == {"hma.large", "eo1.large"}

\* hrwsi.triggering_condition joined with hrwsi.processing_routine
flavour_of(tc_name) ==
    IF tc_name \in {"Backscatter_10m_TC", "SWS_TC"} THEN "hma.large" ELSE "eo1.large"
duration_of(tc_name) == IF tc_name = "CC_TC" THEN 30 ELSE 5

TvOf(tv_id) == CHOOSE t \in trigger_validation : t.id = tv_id

\* a request that returns no row
NoUnprocessedRaw2valid == {}
GET_UNPROCESSED_RAW2VALID_INPUTS_REQUEST ==
    {e \in raw2valid : ~\E pt \in processing_tasks : pt.trigger_validation_fk_id = e[1]}

\* a probe that never finds the task
PtProbeSkipped(trigger_validation_id) == {}
PT_ALREADY_IN_DATABASE_REQUEST(trigger_validation_id) ==
    {pt \in processing_tasks : pt.trigger_validation_fk_id = trigger_validation_id}

\* the rows create_processing_task adds to hrwsi.processing_tasks
create_processing_task(queue_item) ==
    LET trigger_validation_id == queue_item[1]
        is_pt_exists == PT_ALREADY_IN_DATABASE_REQUEST(trigger_validation_id) # {}
        res == TvOf(trigger_validation_id)
    IN  IF is_pt_exists THEN {}
        ELSE {[id |-> Cardinality(processing_tasks) + 1,
               trigger_validation_fk_id |-> trigger_validation_id,
               creation_date |-> now,
               has_ended |-> FALSE,
               processing_date |-> IF res.triggering_condition_name = "GFSC_TC"
                                   THEN res.artificial_measurement_day ELSE NoDay]}

\* the payload the insert trigger of processing_tasks publishes
PtPayload(pt) ==
    [id |-> pt.id, trigger_validation_fk_id |-> pt.trigger_validation_fk_id,
     flavour |-> flavour_of(TvOf(pt.trigger_validation_fk_id).triggering_condition_name)]

\* run_cycle starts handle_notify: LISTEN on a new session, then every
\* raw2valid row without a processing task is notified again.  The session
\* of the previous cycle is closed with what it had not polled.
OrchestratorRunCycle ==
    /\ LET again == get_statements_to_notify_again(GET_UNPROCESSED_RAW2VALID_INPUTS_REQUEST)
       IN  /\ Len(orch.queue) + Len(again) <= MaxQueue
           /\ orch' = [orch EXCEPT !.listening = TRUE, !.consuming = TRUE,
                                    !.notifies = again]
    /\ UNCHANGED <<now, wekeo_api_manager, triggerer_config, user_interface, scheduler, harvester, upstream, store, allocs, trig, launcher>>

\* handle_notify: conn.poll(), every pending notification goes to r2v_queue
OrchestratorHandleNotify ==
    /\ orch.listening
    /\ orch.notifies # <<>>
    /\ Len(orch.queue) + Len(orch.notifies) <= MaxQueue
    /\ orch' = [orch EXCEPT !.queue = @ \o orch.notifies, !.notifies = <<>>]
    /\ UNCHANGED <<now, wekeo_api_manager, triggerer_config, user_interface, scheduler, harvester, upstream, store, allocs, trig, launcher>>

\* a payload of raw2valid_insertion without its two ids: get() gives None
PayloadWithoutIds == <<0, "None">>

\* create_processing_task raises ValueError: an id of the payload is None
CreateProcessingTaskRaises(queue_item) ==
    queue_item[2] = "None" \/ queue_item[1] = 0

\* a NOTIFY on raw2valid_insertion that the insert trigger of raw2valid did not build
OrchestratorForeignNotify ==
    /\ orch.listening
    /\ Len(orch.notifies) + Len(orch.queue) < MaxQueue
    /\ orch' = [orch EXCEPT !.notifies = Append(@, PayloadWithoutIds)]
    /\ UNCHANGED <<now, wekeo_api_manager, triggerer_config, user_interface, scheduler, harvester, upstream, store, allocs, trig, launcher>>

\* handle_r2v_input: one item of r2v_queue through create_processing_task.
\* An exception of create_processing_task is raised again out of the loop:
\* the task ends, and run_cycle creates the next one at its next cycle.
OrchestratorHandleR2vInput ==
    /\ orch.listening
    /\ orch.consuming
    /\ orch.queue # <<>>
    /\ IF CreateProcessingTaskRaises(Head(orch.queue))
       THEN /\ orch' = [orch EXCEPT !.queue = Tail(@), !.consuming = FALSE]
            /\ UNCHANGED <<processing_tasks, launcher>>
       ELSE /\ LET new == create_processing_task(Head(orch.queue))
               IN  /\ processing_tasks' = processing_tasks \cup new
                   /\ launcher' = [launcher EXCEPT !.notifies =
                                      Deliver(launcher.listening, @,
                                              SeqOf({PtPayload(pt) : pt \in new}))]
            /\ orch' = [orch EXCEPT !.queue = Tail(@)]
    /\ UNCHANGED <<now, wekeo_api_manager, triggerer_config, user_interface, scheduler, harvester, upstream,
                   raw_inputs, trigger_validation, raw2valid, products,
                   nomad_job_dispatch, pt2nomad, psw, allocs, trig>>

(***************************************************************************)
(* Launcher: the queries.                                                  *)
(***************************************************************************)
NRT_FIRST_DAY == 50     \* 20250115 on the scale of the day numbers

ProcessingStatusId(name) ==
    CASE name = "started" -> 1 [] name = "processed" -> 2 [] name = "pending" -> 3
      [] name = "internal_error" -> 4 [] name = "external_error" -> 5 [] OTHER -> 6

PtById(pt_id) == CHOOSE pt \in processing_tasks : pt.id = pt_id
TcOf(pt) == TvOf(pt.trigger_validation_fk_id).triggering_condition_name
InputsOf(pt) == {r \in raw_inputs : <<pt.trigger_validation_fk_id, r.id>> \in raw2valid}

\* the joins shared by the Launcher requests: the task's rule runs on the
\* flavour and one of its inputs was measured on or after 20250115
NrtTaskOfFlavour(pt, flavour) ==
    /\ flavour_of(TcOf(pt)) = flavour
    /\ \E r \in InputsOf(pt) : r.measurement_day >= NRT_FIRST_DAY

\* a request that returns no task
NoUndispatchedPt(flavour) == {}
GET_UNDISPATCHED_PT_REQUEST(flavour) ==
    {pt \in processing_tasks : /\ NrtTaskOfFlavour(pt, flavour)
                               /\ DispatchesOf(pt.id) = {}}

\* variant of the request that reads external_error (5) only
InErrorExternalOnly(flavour) ==
    {pt \in processing_tasks :
        /\ NrtTaskOfFlavour(pt, flavour)
        /\ ~pt.has_ended
        /\ \E d \in DispatchesOf(pt.id) : \E w \in StatusesOf(d) :
              w.processing_status_id \in {5}}

GET_IN_ERROR_PT_REQUEST(flavour) ==
    {pt \in processing_tasks :
        /\ NrtTaskOfFlavour(pt, flavour)
        /\ ~pt.has_ended
        /\ \E d \in DispatchesOf(pt.id) : \E w \in StatusesOf(d) :
              w.processing_status_id \in {4, 5}}

\* rows <<processing task, flavour, nomad_job_uuid>>, one per PT2Nomad edge
GET_UNFINISHED_PT_REQUEST(flavour) ==
    {<<PtById(e[2]), flavour, e[1]>> :
        e \in {x \in pt2nomad : /\ NrtTaskOfFlavour(PtById(x[2]), flavour)
                                /\ ~PtById(x[2]).has_ended}}

GET_UNFINISHED_WITH_CALLBACK_PT_REQUEST(flavour) ==
    {row \in GET_UNFINISHED_PT_REQUEST(flavour) : StatusesOf(row[3]) # {}}

\* the request is formatted with the flavour but holds no placeholder
GET_UNFINISHED_PT_WITH_EXIT_CODE(flavour) ==
    {row \in GET_UNFINISHED_PT_REQUEST("eo1.large") :
        \E w \in StatusesOf(row[3]) : w.exit_code # NoCode}

IS_THIS_PT_CURRENTLY_DEPLOYED(pt_id) ==
    \E pt \in processing_tasks : \E d \in DispatchesOf(pt_id) :
        /\ pt.id = pt_id
        /\ ~pt.has_ended
        /\ ~\E w \in StatusesOf(d) : w.exit_code # NoCode

StatusRow(njd_id, status_id, exit_code) ==
    [nomad_job_dispatch_fk_id |-> njd_id, processing_status_id |-> status_id,
     exit_code |-> exit_code,
     n |-> Cardinality(psw) + 1]

(***************************************************************************)
(* Launcher: the process.  An allocation of the scheduler is               *)
(* [id, job, submit, status, known]; known is FALSE once the scheduler has *)
(* discarded its record.                                                   *)
(***************************************************************************)
\* launch starts handle_notify: LISTEN on a new session, then the
\* undispatched tasks of the flavour are notified again; the dispatcher task
\* is started again.
LauncherLaunch ==
    /\ LET again == get_statements_to_notify_again(
                        {PtPayload(pt) : pt \in GET_UNDISPATCHED_PT_REQUEST(launcher.flavour)})
       IN  launcher' = [launcher EXCEPT !.listening = TRUE, !.alive = TRUE,
                                        !.notifies = again]
    /\ UNCHANGED <<now, wekeo_api_manager, triggerer_config, user_interface, scheduler, harvester, upstream, store, allocs, trig, orch>>

\* a listener that filters on the flavour only
EnqueueWithoutSet(notifies, l) ==
    LET mine == SelectSeq(notifies, LAMBDA n : n.flavour = l.flavour)
    IN  [l EXCEPT !.queue = @ \o mine, !.set = @ \cup {n.id : n \in Range(mine)}]

RECURSIVE Enqueue(_, _)
\* handle_notify: a payload of the flavour goes to the queue unless its task
\* is in processing_tasks_set
Enqueue(notifies, l) ==
    IF notifies = <<>> THEN l
    ELSE LET n == Head(notifies)
         IN  Enqueue(Tail(notifies),
                     IF n.flavour = l.flavour /\ n.id \notin l.set
                     THEN [l EXCEPT !.queue = Append(@, n), !.set = @ \cup {n.id}]
                     ELSE l)

LauncherHandleNotify ==
    /\ launcher.listening
    /\ launcher.notifies # <<>>
    /\ launcher' = Enqueue(launcher.notifies, [launcher EXCEPT !.notifies = <<>>])
    /\ Len(launcher'.queue) <= MaxQueue
    /\ UNCHANGED <<now, wekeo_api_manager, triggerer_config, user_interface, scheduler, harvester, upstream, store, allocs, trig, orch>>

LauncherNotifyAgain(tasks) ==
    /\ launcher.listening
    /\ LET again == get_statements_to_notify_again({PtPayload(pt) : pt \in tasks})
       IN  /\ Len(launcher.notifies) + Len(again) <= MaxQueue
           /\ launcher' = [launcher EXCEPT !.notifies = @ \o again]
    /\ UNCHANGED <<now, wekeo_api_manager, triggerer_config, user_interface, scheduler, harvester, upstream, store, allocs, trig, orch>>

\* handle_undispatched_pt, one pass
LauncherHandleUndispatchedPt ==
    LauncherNotifyAgain(GET_UNDISPATCHED_PT_REQUEST(launcher.flavour))

\* handle_in_error_pt, one pass
LauncherHandleInErrorPt ==
    LauncherNotifyAgain(GET_IN_ERROR_PT_REQUEST(launcher.flavour))

\* seconds since the scheduler dispatched the job; 0 stands for None
get_job_dispatch_duration(job_uuid) ==
    IF \E a \in allocs : a.id = job_uuid /\ a.known
    THEN LET a == CHOOSE a \in allocs : a.id = job_uuid
             seconds == 60 * (now - a.submit)
         IN  IF seconds > 1 THEN seconds ELSE 1
    ELSE 0

relaunch_flag(lost_pt, without_exit_code, without_callback) ==
    LET duration_since_dispatching == get_job_dispatch_duration(lost_pt[3])
        pr_duration_in_minutes ==
            IF duration_of(TcOf(lost_pt[1])) > 7 THEN duration_of(TcOf(lost_pt[1])) ELSE 7
    IN  IF lost_pt \in without_exit_code
        THEN \/ duration_since_dispatching = 0
             \/ duration_since_dispatching > 3 * 60 * pr_duration_in_minutes
        ELSE duration_since_dispatching = 0 \/ duration_since_dispatching > 3600

\* the dispatches one pass of handle_lost_pt puts in error
LostDispatches ==
    LET unfinished == GET_UNFINISHED_PT_REQUEST(launcher.flavour)
        without_callback ==
            unfinished \ GET_UNFINISHED_WITH_CALLBACK_PT_REQUEST(launcher.flavour)
        without_exit_code ==
            unfinished \ GET_UNFINISHED_PT_WITH_EXIT_CODE(launcher.flavour)
    IN  {lost_pt[3] : lost_pt \in
            {row \in without_exit_code \cup without_callback :
                relaunch_flag(row, without_exit_code, without_callback)}}

\* handle_lost_pt, one pass
LauncherHandleLostPt ==
    /\ launcher.listening
    /\ psw' = psw \cup {StatusRow(d, ProcessingStatusId("internal_error"), "404") :
                            d \in LostDispatches}
    /\ Cardinality(psw') <= MaxStatus
    /\ UNCHANGED <<now, wekeo_api_manager, triggerer_config, user_interface, scheduler, harvester, upstream,
                   raw_inputs, trigger_validation, raw2valid, processing_tasks,
                   products, nomad_job_dispatch, pt2nomad, allocs, trig, orch, launcher>>

\* the statuses the model lets the scheduler report: one of the map, and the
\* default the code reads when the job holds none
JobStatuses == {"running", "Unknown"}
\* create_processing_status_workflow_for_new_nomad_job: the status of the
\* scheduler's job, mapped to a status name; a status outside the map raises
\* KeyError, which create_nomad_job logs
nomad_job_existing_status(nomad_job_status) ==
    CASE nomad_job_status = "running" -> "started"
      [] nomad_job_status = "pending" -> "pending"
      [] nomad_job_status = "dead" -> "internal_error"
      [] nomad_job_status = "complete" -> "processed"
      [] OTHER -> "KeyError"

\* create_config_file_for_routine: the handlers and the configuration classes
\* are external; a render raises, returns a status (skip) or returns nothing
RenderOutcomes == {"raise", "skip", "ok"}

\* collect_uuid: an allocation of the job that is running or pending
collect_uuid(all, processing_task_id) ==
    {a.id : a \in {x \in all : /\ x.job = processing_task_id /\ x.known
                               /\ x.status \in {"running", "pending"}}}

\* what create_nomad_job meets for the item at the head of the queue, up to
\* the answer of the scheduler: the task is deployed ("passing"), the render
\* raises or returns a status, the scheduler returns no EvalID ("refused"),
\* or the job is submitted
Submits(pt_input) ==
    IF IS_THIS_PT_CURRENTLY_DEPLOYED(pt_input.id) THEN {"passing"}
    ELSE (RenderOutcomes \ {"ok"}) \cup {"refused", "submitted"}

\* handle_processing_task_input: one item of the queue through
\* create_nomad_job; the task leaves processing_tasks_set unless
\* create_nomad_job raised, which ends the dispatcher until the next cycle
LauncherHandleProcessingTaskInput ==
    /\ launcher.listening /\ launcher.alive
    /\ launcher.queue # <<>>
    /\ LET pt_input == Head(launcher.queue)
           alloc == [id |-> Cardinality(allocs) + 1, job |-> pt_input.id,
                     submit |-> now, status |-> "pending", known |-> TRUE]
       IN  \E outcome \in Submits(pt_input) :
             /\ launcher' = [launcher EXCEPT
                    !.queue = Tail(@),
                    !.alive = (outcome # "raise"),
                    !.set = IF outcome = "raise" THEN @ ELSE @ \ {pt_input.id}]
             /\ IF outcome = "submitted"
                THEN /\ Cardinality(allocs) < MaxDispatch
                     /\ allocs' = allocs \cup {alloc}
                     /\ \E nomad_job_uuid \in collect_uuid(allocs', pt_input.id) :
                          IF nomad_job_uuid \in nomad_job_dispatch
                          THEN UNCHANGED <<nomad_job_dispatch, pt2nomad, psw>>
                          ELSE /\ nomad_job_dispatch' = nomad_job_dispatch \cup {nomad_job_uuid}
                               /\ pt2nomad' = pt2nomad \cup {<<nomad_job_uuid, pt_input.id>>}
                               /\ \E status \in JobStatuses :
                                    psw' = IF nomad_job_existing_status(status) = "KeyError"
                                           THEN psw
                                           ELSE psw \cup {StatusRow(nomad_job_uuid,
                                                   ProcessingStatusId(nomad_job_existing_status(status)),
                                                   NoCode)}
                ELSE UNCHANGED <<allocs, nomad_job_dispatch, pt2nomad, psw>>
    /\ UNCHANGED <<now, wekeo_api_manager, triggerer_config, user_interface, scheduler, harvester, upstream,
                   raw_inputs, trigger_validation, raw2valid, processing_tasks,
                   products, trig, orch>>

(***************************************************************************)
(* Harvester service: the command line interface reads the environment,    *)
(* builds the process manager and starts its scheduler.  An environment is *)
(* a function from the variable names to their values; Unset is the None   *)
(* of environ.get.  Dates are day numbers.                                 *)
(***************************************************************************)
Unset == "<unset>"
EnvironmentVariablesNames ==
    {"HRWSI_HARVESTER_RUN_MODE", "HRWSI_HARVESTER_DATABASE_HOST",
     "HRWSI_HARVESTER_DATABASE_PORT", "HRWSI_HARVESTER_DATABASE_USER",
     "HRWSI_HARVESTER_DATABASE_PASSWORD", "HRWSI_HARVESTER_DATABASE_NAME",
     "HRWSI_HARVESTER_ARCHIVE_START_DATE", "HRWSI_HARVESTER_ARCHIVE_END_DATE",
     "VAULT_URL", "VAULT_TOKEN", "S3_CONFIGURATION_FILE_PATH"}

\* str.lower on the values of the run mode
lower(value) ==
    CASE value \in {"ARCHIVE", "Archive", "archive"} -> "archive"
      [] value \in {"NEAR_REAL_TIME", "near_real_time"} -> "near_real_time"
      [] value = "DAILY" -> "daily"
      [] OTHER -> value

\* RunMode.from_string: the first mode whose value matches, else None
RunMode_from_string(value) ==
    IF lower("ARCHIVE") = lower(value) THEN "ARCHIVE"
    ELSE IF lower("NEAR_REAL_TIME") = lower(value) THEN "NEAR_REAL_TIME"
    ELSE "None"

\* int(database_port_value)
int(value) ==
    CASE value = "0" -> [ValueError |-> FALSE, value |-> 0]
      [] value = "1" -> [ValueError |-> FALSE, value |-> 1]
      [] value = "5432" -> [ValueError |-> FALSE, value |-> 5432]
      [] value = "65534" -> [ValueError |-> FALSE, value |-> 65534]
      [] value = "65535" -> [ValueError |-> FALSE, value |-> 65535]
      [] value = "65536" -> [ValueError |-> FALSE, value |-> 65536]
      [] OTHER -> [ValueError |-> TRUE, value |-> 0]

\* DateTime.fromisoformat
fromisoformat(value) ==
    CASE value = "2024-01-01" -> [ValueError |-> FALSE, value |-> 10]
      [] value = "2024-06-01" -> [ValueError |-> FALSE, value |-> 20]
      [] OTHER -> [ValueError |-> TRUE, value |-> 0]

UserInterfaceOf(environ) == [environ |-> environ, manager |-> FALSE, error |-> "none"]
NoUserInterface == UserInterfaceOf([n \in EnvironmentVariablesNames |-> Unset])

\* Scheduler.__init__: no job, the thread is not started
NewScheduler ==
    [jobs |-> 0, thread |-> "new", stop_event |-> FALSE, submitted |-> 0, completed |-> 0,
     shutdown |-> FALSE, stop |-> "none"]
\* before the process manager is built there is no scheduler
NoScheduler == NewScheduler

\* the checks of start in their order, up to the construction of the
\* process manager: the message of the ValueError raised, or "none"
StartError(environ) ==
    LET get(name) == environ[name]
        port == int(get("HRWSI_HARVESTER_DATABASE_PORT"))
        run_mode == RunMode_from_string(get("HRWSI_HARVESTER_RUN_MODE"))
        archive_start == fromisoformat(get("HRWSI_HARVESTER_ARCHIVE_START_DATE"))
        archive_end == fromisoformat(get("HRWSI_HARVESTER_ARCHIVE_END_DATE"))
        NotSet(name) == name \o " environment variable is not set"
    IN  IF get("HRWSI_HARVESTER_RUN_MODE") = Unset
        THEN NotSet("HRWSI_HARVESTER_RUN_MODE")
        ELSE IF get("HRWSI_HARVESTER_DATABASE_HOST") = Unset
        THEN NotSet("HRWSI_HARVESTER_DATABASE_HOST")
        ELSE IF get("HRWSI_HARVESTER_DATABASE_PORT") = Unset
        THEN NotSet("HRWSI_HARVESTER_DATABASE_PORT")
        ELSE IF port.ValueError
        THEN "HRWSI_HARVESTER_DATABASE_PORT environment variable must be an integer"
        ELSE IF port.value < 1 \/ port.value > 65534
        THEN "HRWSI_HARVESTER_DATABASE_PORT environment variable must be between 1 and 65534"
        ELSE IF get("HRWSI_HARVESTER_DATABASE_USER") = Unset
        THEN NotSet("HRWSI_HARVESTER_DATABASE_USER")
        ELSE IF get("HRWSI_HARVESTER_DATABASE_PASSWORD") = Unset
        THEN NotSet("HRWSI_HARVESTER_DATABASE_PASSWORD")
        ELSE IF get("HRWSI_HARVESTER_DATABASE_NAME") = Unset
        THEN NotSet("HRWSI_HARVESTER_DATABASE_NAME")
        ELSE IF get("VAULT_URL") = Unset
        THEN NotSet("VAULT_URL")
        ELSE IF get("VAULT_TOKEN") = Unset
        THEN NotSet("VAULT_TOKEN")
        ELSE IF get("S3_CONFIGURATION_FILE_PATH") = Unset
        THEN NotSet("S3_CONFIGURATION_FILE_PATH")
        ELSE IF /\ run_mode = "ARCHIVE"
                /\ get("HRWSI_HARVESTER_ARCHIVE_START_DATE") # Unset
                /\ archive_start.ValueError
        THEN "HRWSI_HARVESTER_ARCHIVE_START_DATE environment variable must be a date in the format YYYY-MM-DD"
        ELSE IF /\ run_mode = "ARCHIVE"
                /\ get("HRWSI_HARVESTER_ARCHIVE_END_DATE") # Unset
                /\ archive_end.ValueError
        THEN "HRWSI_HARVESTER_ARCHIVE_END_DATE environment variable must be a date in the format YYYY-MM-DD"
        ELSE IF /\ run_mode = "ARCHIVE"
                /\ get("HRWSI_HARVESTER_ARCHIVE_START_DATE") # Unset
                /\ get("HRWSI_HARVESTER_ARCHIVE_END_DATE") # Unset
                /\ archive_start.value > archive_end.value
        THEN "ARCHIVE start date must be earlier than end date"
        ELSE "none"

\* the clients of the vault, of the object store and of the database are
\* built before the manager; their constructors are external and may raise
ClientOutcomes == {"built", "raise"}

\* HarvesterProcessManager.start_harvesting: add_job, then Scheduler.start
start_harvesting(sched) == [sched EXCEPT !.jobs = @ + 1, !.thread = "while"]

\* CommandLineUserInterface.start
CommandLineUserInterface_start ==
    /\ ~user_interface.manager
    /\ user_interface.error = "none"
    /\ \E clients \in ClientOutcomes :
         LET error == StartError(user_interface.environ)
         IN  IF error # "none"
             THEN /\ user_interface' = [user_interface EXCEPT !.error = error]
                  /\ UNCHANGED scheduler
             ELSE IF clients = "raise"
             THEN /\ user_interface' = [user_interface EXCEPT !.error = "client"]
                  /\ UNCHANGED scheduler
             ELSE /\ user_interface' = [user_interface EXCEPT !.manager = TRUE]
                  /\ scheduler' = start_harvesting(NewScheduler)
    /\ UNCHANGED <<now, wekeo_api_manager, triggerer_config, harvester, upstream, store,
                   allocs, trig, orch, launcher>>

(***************************************************************************)
(* Scheduler: _run is the thread of the scheduling loop ("while" at the    *)
(* test of the stop flag, "for" in the loop over the jobs, "sleep", then   *)
(* "exited"); the runs it submits to the pool complete one by one; stop    *)
(* sets the flag, joins the thread and shuts the pool down ("join",        *)
(* "shutdown", "wait", then "returned").                                   *)
(***************************************************************************)
\* while not self._stop_event.is_set()
Scheduler_run_while ==
    /\ scheduler.thread = "while"
    /\ scheduler' = [scheduler EXCEPT !.thread = IF scheduler.stop_event THEN "exited"
                                                 ELSE "for"]
    /\ UNCHANGED <<now, wekeo_api_manager, triggerer_config, user_interface, harvester,
                   upstream, store, allocs, trig, orch, launcher>>

\* the loop over the jobs: a job that is due is submitted to the pool; a
\* submit to a pool that is shut down raises and ends the thread
Scheduler_run_for ==
    /\ scheduler.thread = "for"
    /\ \E due \in BOOLEAN :
         IF ~due THEN scheduler' = [scheduler EXCEPT !.thread = "sleep"]
         ELSE IF scheduler.shutdown THEN scheduler' = [scheduler EXCEPT !.thread = "exited"]
         ELSE /\ scheduler.submitted < MaxRuns
              /\ scheduler' = [scheduler EXCEPT !.thread = "sleep", !.submitted = @ + 1]
    /\ UNCHANGED <<now, wekeo_api_manager, triggerer_config, user_interface, harvester,
                   upstream, store, allocs, trig, orch, launcher>>

\* time.sleep(0.01)
Scheduler_run_sleep ==
    /\ scheduler.thread = "sleep"
    /\ scheduler' = [scheduler EXCEPT !.thread = "while"]
    /\ UNCHANGED <<now, wekeo_api_manager, triggerer_config, user_interface, harvester,
                   upstream, store, allocs, trig, orch, launcher>>

\* a worker of the pool ends a run of the harvesting job
RunCompletes ==
    /\ scheduler.completed < scheduler.submitted
    /\ scheduler' = [scheduler EXCEPT !.completed = @ + 1]
    /\ UNCHANGED <<now, wekeo_api_manager, triggerer_config, user_interface, harvester,
                   upstream, store, allocs, trig, orch, launcher>>

\* CommandLineUserInterface.stop, HarvesterProcessManager.stop_harvesting:
\* Scheduler.stop begins with self._stop_event.set()
CommandLineUserInterface_stop ==
    /\ user_interface.manager
    /\ scheduler.stop = "none"
    /\ scheduler' = [scheduler EXCEPT !.stop_event = TRUE, !.stop = "join"]
    /\ UNCHANGED <<now, wekeo_api_manager, triggerer_config, user_interface, harvester,
                   upstream, store, allocs, trig, orch, launcher>>

\* a join that does not wait for the thread
JoinReturnsAtOnce(thread) == TRUE
\* Thread.join returns when the thread has ended
Thread_join(thread) == thread = "exited"

\* self._thread.join()
Scheduler_stop_join ==
    /\ scheduler.stop = "join"
    /\ Thread_join(scheduler.thread)
    /\ scheduler' = [scheduler EXCEPT !.stop = "shutdown"]
    /\ UNCHANGED <<now, wekeo_api_manager, triggerer_config, user_interface, harvester,
                   upstream, store, allocs, trig, orch, launcher>>

\* self.executor.shutdown(wait=True): the pool refuses new runs, then the
\* call waits for the runs that were submitted
Scheduler_stop_shutdown ==
    /\ \/ /\ scheduler.stop = "shutdown"
          /\ scheduler' = [scheduler EXCEPT !.shutdown = TRUE, !.stop = "wait"]
       \/ /\ scheduler.stop = "wait"
          /\ scheduler.completed = scheduler.submitted
          /\ scheduler' = [scheduler EXCEPT !.stop = "returned"]
    /\ UNCHANGED <<now, wekeo_api_manager, triggerer_config, user_interface, harvester,
                   upstream, store, allocs, trig, orch, launcher>>

(***************************************************************************)
(* Archive Launcher: the periodic pass over the unprocessed tasks of the   *)
(* archive.  The days are day numbers; 20250115 is NRT_FIRST_DAY.          *)
(***************************************************************************)
\* hrwsi.processing_routine joined on ri.product_type_code = pr.product_type_code
flavour_of_input(product_type_code) ==
    IF product_type_code \in {"IW_GRDH_1S", "S1_NRB_L2A"} THEN "hma.large" ELSE "eo1.large"
\* self.formatted_eligible_tiles
eligible_tiles == tile_list
\* self.measurement_date_interval, in days
measurement_date_interval == 2

\* the joins of the two requests: a task without processingtask2nomad row,
\* one of its inputs, the routine of the type of that input on the flavour,
\* the tile of the input among the eligible tiles
UnprocessedArchiveRows(flavour) ==
    {x \in processing_tasks \X raw_inputs :
        /\ <<x[1].trigger_validation_fk_id, x[2].id>> \in raw2valid
        /\ flavour_of_input(x[2].product_type_code) = flavour
        /\ x[2].tile \in eligible_tiles
        /\ DispatchesOf(x[1].id) = {}}

\* SELECT MIN(ri.measurement_day) ... ; None when there is no row
GET_OLDEST_MEASUREMENT_DATE_FROM_UNPROCESSED_PT_REQUEST(flavour) ==
    LET days == {x[2].measurement_day :
                    x \in {y \in UnprocessedArchiveRows(flavour) :
                              /\ ~TvOf(y[1].trigger_validation_fk_id).is_nrt
                              /\ y[2].measurement_day < NRT_FIRST_DAY}}
    IN  IF days = {} THEN NoDay
        ELSE CHOOSE d \in days : \A e \in days : d <= e

\* new_date if new_date < 20250115 else 20250114
measurement_closing_date(oldest_measurement_date) ==
    IF oldest_measurement_date + measurement_date_interval < NRT_FIRST_DAY
    THEN oldest_measurement_date + measurement_date_interval
    ELSE NRT_FIRST_DAY - 1

\* the tasks of the rows of the request: ri.measurement_day BETWEEN {} AND {}
GET_UNPROCESSED_ARCHIVE_PT_REQUEST(flavour, oldest_measurement_date, closing_date) ==
    {x[1] : x \in {y \in UnprocessedArchiveRows(flavour) :
                      BETWEEN(y[2].measurement_day, oldest_measurement_date, closing_date)}}

\* launch of the archive variant: it starts handle_unprocessed_pt and the
\* dispatcher and opens no LISTEN session; launcher.listening stands for the
\* running group here, nothing is published to this launcher
ArchiveLauncherLaunch ==
    /\ launcher' = [launcher EXCEPT !.listening = TRUE, !.alive = TRUE]
    /\ UNCHANGED <<now, wekeo_api_manager, triggerer_config, user_interface, scheduler, harvester, upstream, store,
                   allocs, trig, orch>>

\* handle_unprocessed_pt, one pass of its loop: the rows come in an order the
\* request leaves open; a task that is not in processing_tasks_set is put in
\* the queue and added to the set
handle_unprocessed_pt ==
    /\ launcher.listening
    /\ LET oldest_measurement_date ==
               GET_OLDEST_MEASUREMENT_DATE_FROM_UNPROCESSED_PT_REQUEST(launcher.flavour)
           rows == IF oldest_measurement_date = NoDay THEN {}
                   ELSE GET_UNPROCESSED_ARCHIVE_PT_REQUEST(
                            launcher.flavour, oldest_measurement_date,
                            measurement_closing_date(oldest_measurement_date))
           fresh == {pt \in rows : pt.id \notin launcher.set}
       IN  /\ Len(launcher.queue) + Cardinality(fresh) <= MaxQueue
           /\ \E order \in Orderings(fresh) :
                launcher' = [launcher EXCEPT
                    !.queue = @ \o [k \in DOMAIN order |->
                                      [id |-> order[k].id,
                                       trigger_validation_fk_id |->
                                           order[k].trigger_validation_fk_id,
                                       flavour |-> launcher.flavour]],
                    !.set = @ \cup {pt.id : pt \in fresh}]
    /\ UNCHANGED <<now, wekeo_api_manager, triggerer_config, user_interface, scheduler, harvester, upstream, store,
                   allocs, trig, orch>>

(***************************************************************************)
(* The workers and the scheduler.                                          *)
(***************************************************************************)
\* The worker of a dispatch reports its end: on success a processed row with
\* exit code 0, the product and has_ended; on failure an error row.
WorkerEnds(uuid, ok) ==
    /\ uuid \in nomad_job_dispatch
    /\ \E a \in allocs : \E e \in pt2nomad :
        /\ a.id = uuid /\ a.known /\ a.status \in {"pending", "running"}
        /\ e[1] = uuid
        /\ ~PtById(e[2]).has_ended
        /\ Cardinality(psw) < MaxStatus
        /\ allocs' = (allocs \ {a}) \cup {[a EXCEPT !.status = IF ok THEN "complete" ELSE "failed"]}
        /\ IF ok
           THEN /\ psw' = psw \cup {StatusRow(uuid, ProcessingStatusId("processed"), "0")}
                /\ processing_tasks' = (processing_tasks \ {PtById(e[2])})
                                       \cup {[PtById(e[2]) EXCEPT !.has_ended = TRUE]}
                /\ products' = products \cup {PtById(e[2]).trigger_validation_fk_id}
           ELSE /\ psw' = psw \cup {StatusRow(uuid, ProcessingStatusId("external_error"), "1")}
                /\ UNCHANGED <<processing_tasks, products>>
    /\ UNCHANGED <<now, wekeo_api_manager, triggerer_config, user_interface, scheduler, harvester, upstream,
                   raw_inputs, trigger_validation, raw2valid,
                   nomad_job_dispatch, pt2nomad, trig, orch, launcher>>

\* The scheduler discards its record of an allocation.
NomadForgets(uuid) ==
    /\ \E a \in allocs : /\ a.id = uuid /\ a.known
                         /\ allocs' = (allocs \ {a}) \cup {[a EXCEPT !.known = FALSE]}
    /\ UNCHANGED <<now, wekeo_api_manager, triggerer_config, user_interface, scheduler, harvester, upstream, store, trig, orch, launcher>>

(***************************************************************************)
(* Launcher: the task group of launch and its periodic restart.            *)
(* launcher.tasks gives the position of each task of the group: "none"     *)
(* before its creation, the await where it is suspended ("poll", "get",    *)
(* "sleep"), for the dispatcher inside create_nomad_job the statement it   *)
(* has executed last ("dispatch_written", "edge_written"), and "ended".    *)
(* launcher.stopping is TRUE from stop_tasks and the cancel() calls to the *)
(* return of gather; launcher.unit is the dispatch the dispatcher is       *)
(* persisting.                                                             *)
(***************************************************************************)
TaskNames ==
    {"handle_notify_task", "handle_processing_task", "handle_undispatched_pt_task",
     "handle_lost_pt_task", "handle_in_error_pt_task"}

\* the await of the loop of each task
AwaitOf(task) ==
    CASE task = "handle_notify_task" -> "poll"
      [] task = "handle_processing_task" -> "get"
      [] OTHER -> "sleep"

NoUnit == [nomad_job_uuid |-> 0, processing_task_id |-> 0]

\* a scheduler that takes the processor from a task wherever it is
SuspendedAnywhere(position) == TRUE
\* The event loop runs one coroutine at a time: launch goes on after its
\* sleep only while every other task is suspended at an await.
Suspended(position) == position \in {"none", "ended", "poll", "get", "sleep"}

\* the dispatcher is between the statements of one submission
BetweenWrites(position) == position \in {"dispatch_written", "edge_written"}

Terminated(position) == position \in {"none", "ended"}

\* launch, from the return of gather (or from its first line) to its sleep:
\* a new stop event and the five tasks, each one run up to its await;
\* handle_notify listens on a new session and notifies the undispatched
\* tasks of the flavour again.
CycleStartTasks ==
    /\ \A task \in TaskNames : Terminated(launcher.tasks[task])
    /\ LET again == get_statements_to_notify_again(
                        {PtPayload(pt) : pt \in GET_UNDISPATCHED_PT_REQUEST(launcher.flavour)})
       IN  launcher' = [launcher EXCEPT !.listening = TRUE, !.alive = TRUE,
                                        !.notifies = again, !.stopping = FALSE,
                                        !.tasks = [task \in TaskNames |-> AwaitOf(task)]]
    /\ UNCHANGED <<now, wekeo_api_manager, triggerer_config, user_interface, scheduler, harvester, upstream, store, allocs, trig, orch>>

\* launch after its sleep: stop_tasks sets the event and cancel() is called
\* on every task, then launch waits in gather
CycleStopTasks ==
    /\ ~launcher.stopping
    /\ \E task \in TaskNames : ~Terminated(launcher.tasks[task])
    /\ \A task \in TaskNames : Suspended(launcher.tasks[task])
    /\ launcher' = [launcher EXCEPT !.stopping = TRUE]
    /\ UNCHANGED <<now, wekeo_api_manager, triggerer_config, user_interface, scheduler, harvester, upstream, store, allocs, trig, orch>>

\* a cancelled task is resumed: CancelledError is raised where it stands and
\* the task ends; the session of handle_notify is closed
TaskCancelled(task) ==
    /\ launcher.stopping
    /\ ~Terminated(launcher.tasks[task])
    /\ launcher' = [launcher EXCEPT
           !.tasks[task] = "ended",
           !.listening = IF task = "handle_notify_task" THEN FALSE ELSE @,
           !.alive = IF task = "handle_processing_task" THEN FALSE ELSE @]
    /\ UNCHANGED <<now, wekeo_api_manager, triggerer_config, user_interface, scheduler, harvester, upstream, store, allocs, trig, orch>>

\* a task of the group takes a step from its await
Runs(task) == ~launcher.stopping /\ launcher.tasks[task] = AwaitOf(task)

CycleHandleNotify == Runs("handle_notify_task") /\ LauncherHandleNotify

CycleHandleUndispatchedPt ==
    Runs("handle_undispatched_pt_task") /\ LauncherHandleUndispatchedPt

\* handle_processing_task_input takes an item and create_nomad_job runs up to
\* its first insert: the dispatch row.  Without a submission, or when the
\* dispatch row exists (UniqueViolation), the item is done; an exception of
\* the render ends the task.
DispatcherSubmit ==
    /\ Runs("handle_processing_task")
    /\ launcher.queue # <<>>
    /\ LET pt_input == Head(launcher.queue)
           alloc == [id |-> Cardinality(allocs) + 1, job |-> pt_input.id,
                     submit |-> now, status |-> "pending", known |-> TRUE]
       IN  \E outcome \in Submits(pt_input) :
             IF outcome = "submitted"
             THEN /\ Cardinality(allocs) < MaxDispatch
                  /\ allocs' = allocs \cup {alloc}
                  /\ \E nomad_job_uuid \in collect_uuid(allocs', pt_input.id) :
                       IF nomad_job_uuid \in nomad_job_dispatch
                       THEN /\ launcher' = [launcher EXCEPT !.queue = Tail(@),
                                                            !.set = @ \ {pt_input.id}]
                            /\ UNCHANGED nomad_job_dispatch
                       ELSE /\ nomad_job_dispatch' = nomad_job_dispatch \cup {nomad_job_uuid}
                            /\ launcher' = [launcher EXCEPT
                                   !.queue = Tail(@),
                                   !.tasks["handle_processing_task"] = "dispatch_written",
                                   !.unit = [nomad_job_uuid |-> nomad_job_uuid,
                                             processing_task_id |-> pt_input.id]]
             ELSE /\ launcher' = [launcher EXCEPT
                         !.queue = Tail(@),
                         !.alive = (outcome # "raise"),
                         !.tasks["handle_processing_task"] =
                             IF outcome = "raise" THEN "ended" ELSE @,
                         !.set = IF outcome = "raise" THEN @ ELSE @ \ {pt_input.id}]
                  /\ UNCHANGED <<allocs, nomad_job_dispatch>>
    /\ UNCHANGED <<now, wekeo_api_manager, triggerer_config, user_interface, scheduler, harvester, upstream,
                   raw_inputs, trigger_validation, raw2valid, processing_tasks,
                   products, pt2nomad, psw, trig, orch>>

\* create_nomad_job, second insert: the edge of the dispatch to its task
DispatcherInsertEdge ==
    /\ launcher.tasks["handle_processing_task"] = "dispatch_written"
    /\ pt2nomad' = pt2nomad \cup
                      {<<launcher.unit.nomad_job_uuid, launcher.unit.processing_task_id>>}
    /\ launcher' = [launcher EXCEPT !.tasks["handle_processing_task"] = "edge_written"]
    /\ UNCHANGED <<now, wekeo_api_manager, triggerer_config, user_interface, scheduler, harvester, upstream,
                   raw_inputs, trigger_validation, raw2valid, processing_tasks,
                   products, nomad_job_dispatch, psw, allocs, trig, orch>>

\* create_nomad_job, third insert: the initial status row; then the task
\* leaves processing_tasks_set and the dispatcher waits for the next item
DispatcherInsertStatus ==
    /\ launcher.tasks["handle_processing_task"] = "edge_written"
    /\ \E status \in JobStatuses :
          psw' = IF nomad_job_existing_status(status) = "KeyError"
                 THEN psw
                 ELSE psw \cup {StatusRow(launcher.unit.nomad_job_uuid,
                                   ProcessingStatusId(nomad_job_existing_status(status)),
                                   NoCode)}
    /\ launcher' = [launcher EXCEPT
           !.tasks["handle_processing_task"] = "get",
           !.set = @ \ {launcher.unit.processing_task_id},
           !.unit = NoUnit]
    /\ UNCHANGED <<now, wekeo_api_manager, triggerer_config, user_interface, scheduler, harvester, upstream,
                   raw_inputs, trigger_validation, raw2valid, processing_tasks,
                   products, nomad_job_dispatch, pt2nomad, allocs, trig, orch>>

LauncherOf(flavour) ==
    [flavour |-> flavour, listening |-> FALSE, alive |-> FALSE,
     notifies |-> <<>>, queue |-> <<>>, set |-> {},
     stopping |-> FALSE, tasks |-> [task \in TaskNames |-> "none"], unit |-> NoUnit]

(***************************************************************************)
(* Initial state: empty store, no service started.                         *)
(***************************************************************************)
\* the Harvester runs; no harvest of the past has been asked for
InitParams ==
    /\ wekeo_api_manager = [t \in {"S2MSI1C", "IW_GRDH_1S"} |->
                               WekeoRow(nrt_harvest_start_date, 0, 0)]
    /\ harvester = HarvesterAtStart

InitStore ==
    /\ now = StartTime
    /\ triggerer_config = TriggererConfig(StartDay)
    /\ user_interface = NoUserInterface /\ scheduler = NoScheduler
    /\ InitParams
    /\ raw_inputs = {} /\ trigger_validation = {} /\ raw2valid = {}
    /\ processing_tasks = {} /\ products = {}
    /\ nomad_job_dispatch = {} /\ pt2nomad = {} /\ psw = {} /\ allocs = {}
    /\ trig = [pc |-> "down", consuming |-> TRUE, notifies |-> <<>>,
               queue |-> <<>>, orphan_ref |-> <<>>]
    /\ orch = [listening |-> FALSE, consuming |-> FALSE, notifies |-> <<>>, queue |-> <<>>]

\* once: the ids a source presents one time; twice: those it presents again
Deliveries(once, twice) ==
    [i \in DOMAIN Items |-> IF i \in twice THEN 2 ELSE IF i \in once THEN 1 ELSE 0]

\* The clock advances by d minutes.
Tick(d) ==
    /\ now + d <= StartTime + MaxTime
    /\ now' = now + d
    /\ UNCHANGED <<wekeo_api_manager, triggerer_config, user_interface, scheduler, harvester, upstream, store, allocs,
                   trig, orch, launcher>>

(***************************************************************************)
(* Harvester, Triggerer notification path and Orchestrator.                *)
(***************************************************************************)
InitTrig ==
    /\ InitStore
    /\ launcher = LauncherOf("eo1.large")
    /\ upstream = Deliveries({"g1", "f1"}, {"s1"})

NextTrig ==
    \/ \E i \in DOMAIN Items : HarvestInput(i)
    \/ \E i \in DOMAIN Items : HandleProductNotification(i)
    \/ TriggererListen
    \/ TriggererNotifyAgain
    \/ TriggererHandleNotify
    \/ TriggererHandleRawInput
    \/ TriggererRestart
    \/ OrchestratorRunCycle
    \/ OrchestratorHandleNotify
    \/ OrchestratorHandleR2vInput
    \/ Tick(120)

SpecTrig == InitTrig /\ [][NextTrig]_vars

(***************************************************************************)
(* Launcher of one flavour, workers and scheduler, started on a store      *)
(* where the Orchestrator has created the task of one validation: of a     *)
(* non-partial GRDH (Backscatter_10m_TC, hma.large, 5 minutes) or of an    *)
(* L1C (CC_TC, eo1.large, 30 minutes).                                     *)
(***************************************************************************)
ValidationRow(id, tc_name, raw_input) ==
    [id |-> id, triggering_condition_name |-> tc_name, validation_date |-> StartTime,
     is_nrt |-> is_raw_input_nrt(get_nrt_harvesting_date(raw_input.product_type_code),
                                 raw_input),
     artificial_measurement_day |-> NoDay]

InitLaunch ==
    /\ now = StartTime
    /\ triggerer_config = TriggererConfig(StartDay)
    /\ user_interface = NoUserInterface /\ scheduler = NoScheduler
    /\ InitParams
    /\ upstream = Deliveries({}, {})
    /\ \E i \in {"g1", "l2"} :
          /\ raw_inputs = {RawInputRow(i, StartTime)}
          /\ trigger_validation =
                {ValidationRow(1, IF i = "g1" THEN "Backscatter_10m_TC" ELSE "CC_TC",
                               RawInputRow(i, StartTime))}
          /\ raw2valid = {<<1, i>>}
    /\ processing_tasks = {[id |-> 1, trigger_validation_fk_id |-> 1,
                            creation_date |-> StartTime, has_ended |-> FALSE,
                            processing_date |-> NoDay]}
    /\ products = {}
    /\ nomad_job_dispatch = {} /\ pt2nomad = {} /\ psw = {} /\ allocs = {}
    /\ trig = [pc |-> "down", consuming |-> TRUE, notifies |-> <<>>,
               queue |-> <<>>, orphan_ref |-> <<>>]
    /\ orch = [listening |-> FALSE, consuming |-> FALSE, notifies |-> <<>>, queue |-> <<>>]
    /\ \E f \in Flavours : launcher = LauncherOf(f)

NextLaunch ==
    \/ LauncherLaunch
    \/ LauncherHandleNotify
    \/ LauncherHandleUndispatchedPt
    \/ LauncherHandleInErrorPt
    \/ LauncherHandleLostPt
    \/ LauncherHandleProcessingTaskInput
    \/ \E uuid \in 1..MaxDispatch, ok \in BOOLEAN : WorkerEnds(uuid, ok)
    \/ \E uuid \in 1..MaxDispatch : NomadForgets(uuid)
    \/ Tick(45)

SpecLaunch == InitLaunch /\ [][NextLaunch]_vars

(***************************************************************************)
(* The chain of Cloud Cover: the catalog presents two L1C of one tile, the *)
(* product registry the L2A of the first.  The services have been started *)
(* on the empty store: the Triggerer runs its loop, the Orchestrator and   *)
(* the eo1.large Launcher listen.                                          *)
(***************************************************************************)
InitCC ==
    /\ now = StartTime
    /\ triggerer_config = TriggererConfig(StartDay)
    /\ user_interface = NoUserInterface /\ scheduler = NoScheduler
    /\ InitParams
    /\ upstream = Deliveries({"l1", "l2", "a1"}, {})
    /\ raw_inputs = {} /\ trigger_validation = {} /\ raw2valid = {}
    /\ processing_tasks = {} /\ products = {}
    /\ nomad_job_dispatch = {} /\ pt2nomad = {} /\ psw = {} /\ allocs = {}
    /\ trig = [pc |-> "running", consuming |-> TRUE, notifies |-> <<>>,
               queue |-> <<>>, orphan_ref |-> <<>>]
    /\ orch = [listening |-> TRUE, consuming |-> TRUE, notifies |-> <<>>, queue |-> <<>>]
    /\ launcher = [LauncherOf("eo1.large") EXCEPT !.listening = TRUE, !.alive = TRUE]

NextCC ==
    \/ \E i \in DOMAIN Items : HarvestInput(i)
    \/ \E i \in DOMAIN Items : HandleProductNotification(i)
    \/ TriggererHandleNotify
    \/ TriggererHandleRawInput
    \/ TriggererHandleL1cRawInputs
    \/ OrchestratorHandleNotify
    \/ OrchestratorHandleR2vInput
    \/ LauncherHandleNotify
    \/ LauncherHandleProcessingTaskInput
    \/ \E uuid \in 1..MaxDispatch, ok \in BOOLEAN : WorkerEnds(uuid, ok)

SpecCC == InitCC /\ [][NextCC]_vars

(***************************************************************************)
(* The classification of the new raw inputs: the Harvester has been asked  *)
(* or not to harvest from a past date, per input type; the Triggerer runs. *)
(***************************************************************************)
PastHarvestDates == {nrt_harvest_start_date, StartDay - 1, StartDay + 1}

InitNrt ==
    /\ now = StartTime
    /\ triggerer_config = TriggererConfig(StartDay)
    /\ user_interface = NoUserInterface /\ scheduler = NoScheduler
    /\ wekeo_api_manager \in
          [{"S2MSI1C", "IW_GRDH_1S"} -> {WekeoRow(d, 0, 0) : d \in PastHarvestDates}]
    /\ harvester = HarvesterAtStart
    /\ upstream = Deliveries({"g1", "l1", "s1"}, {})
    /\ raw_inputs = {} /\ trigger_validation = {} /\ raw2valid = {}
    /\ processing_tasks = {} /\ products = {}
    /\ nomad_job_dispatch = {} /\ pt2nomad = {} /\ psw = {} /\ allocs = {}
    /\ trig = [pc |-> "running", consuming |-> TRUE, notifies |-> <<>>,
               queue |-> <<>>, orphan_ref |-> <<>>]
    /\ orch = [listening |-> FALSE, consuming |-> FALSE, notifies |-> <<>>, queue |-> <<>>]
    /\ launcher = LauncherOf("eo1.large")

NextNrt ==
    \/ \E i \in DOMAIN Items : HarvestInput(i)
    \/ \E i \in DOMAIN Items : HandleProductNotification(i)
    \/ UnsetHarvestStartDates
    \/ TriggererHandleNotify
    \/ TriggererHandleRawInput
    \/ TriggererHandleL1cRawInputs
    \/ Tick(120)

SpecNrt == InitNrt /\ [][NextNrt]_vars

(***************************************************************************)
(* The Orchestrator and its periodic restart.  The Triggerer has validated *)
(* a GRDH while the Orchestrator was down, and goes on with the inputs the *)
(* sources deliver.  run_cycle loops for ever, handle_notify polls and     *)
(* handle_r2v_input waits on its queue as long as a cycle runs: the three  *)
(* are weakly fair.                                                        *)
(***************************************************************************)
InitOrch ==
    /\ now = StartTime
    /\ triggerer_config = TriggererConfig(StartDay)
    /\ user_interface = NoUserInterface /\ scheduler = NoScheduler
    /\ InitParams
    /\ upstream = Deliveries({"p1"}, {"s1"})
    /\ raw_inputs = {RawInputRow("g1", StartTime)}
    /\ trigger_validation = {ValidationRow(1, "Backscatter_10m_TC", RawInputRow("g1", StartTime))}
    /\ raw2valid = {<<1, "g1">>}
    /\ processing_tasks = {} /\ products = {}
    /\ nomad_job_dispatch = {} /\ pt2nomad = {} /\ psw = {} /\ allocs = {}
    /\ trig = [pc |-> "running", consuming |-> TRUE, notifies |-> <<>>,
               queue |-> <<>>, orphan_ref |-> <<>>]
    /\ orch = [listening |-> FALSE, consuming |-> FALSE, notifies |-> <<>>, queue |-> <<>>]
    /\ launcher = LauncherOf("hma.large")

NextOrch ==
    \/ \E i \in DOMAIN Items : HarvestInput(i)
    \/ \E i \in DOMAIN Items : HandleProductNotification(i)
    \/ TriggererHandleNotify
    \/ TriggererHandleRawInput
    \/ OrchestratorRunCycle
    \/ OrchestratorHandleNotify
    \/ OrchestratorHandleR2vInput

SpecOrch ==
    /\ InitOrch /\ [][NextOrch]_vars
    /\ WF_vars(OrchestratorRunCycle)
    /\ WF_vars(OrchestratorHandleNotify)
    /\ WF_vars(OrchestratorHandleR2vInput)

(***************************************************************************)
(* The work queue of a Launcher.  Two validations wait in the queue of the *)
(* Orchestrator, one per flavour; the Launcher of one flavour has been     *)
(* launched and its re-drivers run.                                        *)
(***************************************************************************)
InitQueue ==
    /\ now = StartTime
    /\ triggerer_config = TriggererConfig(StartDay)
    /\ user_interface = NoUserInterface /\ scheduler = NoScheduler
    /\ InitParams
    /\ upstream = Deliveries({}, {})
    /\ raw_inputs = {RawInputRow("g1", StartTime), RawInputRow("l2", StartTime)}
    /\ trigger_validation =
          {ValidationRow(1, "Backscatter_10m_TC", RawInputRow("g1", StartTime)),
           ValidationRow(2, "CC_TC", RawInputRow("l2", StartTime))}
    /\ raw2valid = {<<1, "g1">>, <<2, "l2">>}
    /\ processing_tasks = {} /\ products = {}
    /\ nomad_job_dispatch = {} /\ pt2nomad = {} /\ psw = {} /\ allocs = {}
    /\ trig = [pc |-> "running", consuming |-> TRUE, notifies |-> <<>>,
               queue |-> <<>>, orphan_ref |-> <<>>]
    /\ orch \in {[listening |-> TRUE, consuming |-> TRUE, notifies |-> <<>>, queue |-> q] :
                    q \in Orderings(raw2valid)}
    /\ \E f \in Flavours :
          launcher = [LauncherOf(f) EXCEPT !.listening = TRUE, !.alive = TRUE]

NextQueue ==
    \/ OrchestratorHandleR2vInput
    \/ LauncherHandleNotify
    \/ LauncherHandleUndispatchedPt
    \/ LauncherHandleInErrorPt
    \/ LauncherHandleProcessingTaskInput
    \/ \E uuid \in 1..MaxDispatch, ok \in BOOLEAN : WorkerEnds(uuid, ok)

SpecQueue == InitQueue /\ [][NextQueue]_vars

(***************************************************************************)
(* Triggerer and Orchestrator receiving, next to the notifications of the  *)
(* insert triggers, payloads that lack a field their handlers read.        *)
(***************************************************************************)
InitShape ==
    /\ now = StartTime
    /\ triggerer_config = TriggererConfig(StartDay)
    /\ user_interface = NoUserInterface /\ scheduler = NoScheduler
    /\ InitParams
    /\ raw_inputs = {} /\ trigger_validation = {} /\ raw2valid = {}
    /\ processing_tasks = {} /\ products = {}
    /\ nomad_job_dispatch = {} /\ pt2nomad = {} /\ psw = {} /\ allocs = {}
    /\ trig = [pc |-> "running", consuming |-> TRUE, notifies |-> <<>>,
               queue |-> <<>>, orphan_ref |-> <<>>]
    /\ orch = [listening |-> FALSE, consuming |-> FALSE, notifies |-> <<>>, queue |-> <<>>]
    /\ launcher = LauncherOf("hma.large")
    /\ upstream = Deliveries({"g1", "p1"}, {})

NextShape ==
    \/ \E i \in DOMAIN Items : HarvestInput(i)
    \/ TriggererForeignNotify
    \/ TriggererHandleNotify
    \/ TriggererHandleRawInput
    \/ OrchestratorRunCycle
    \/ OrchestratorForeignNotify
    \/ OrchestratorHandleNotify
    \/ OrchestratorHandleR2vInput

SpecShape == InitShape /\ [][NextShape]_vars

(***************************************************************************)
(* The Harvester alone, rule by rule, started with or without start dates  *)
(* of a harvest of the past, on a catalog whose calls can fail.            *)
(***************************************************************************)
InitHarvest ==
    /\ now = StartTime
    /\ triggerer_config = TriggererConfig(StartDay)
    /\ user_interface = NoUserInterface /\ scheduler = NoScheduler
    /\ wekeo_api_manager \in
          [{"S2MSI1C", "IW_GRDH_1S"} -> {WekeoRow(d, 0, 0) : d \in PastHarvestDates}]
    /\ harvester = HarvesterAtStart
    /\ raw_inputs = {} /\ trigger_validation = {} /\ raw2valid = {}
    /\ processing_tasks = {} /\ products = {}
    /\ nomad_job_dispatch = {} /\ pt2nomad = {} /\ psw = {} /\ allocs = {}
    /\ trig = [pc |-> "down", consuming |-> TRUE, notifies |-> <<>>,
               queue |-> <<>>, orphan_ref |-> <<>>]
    /\ orch = [listening |-> FALSE, consuming |-> FALSE, notifies |-> <<>>, queue |-> <<>>]
    /\ launcher = LauncherOf("eo1.large")
    /\ upstream = Deliveries({"g1", "l1"}, {})

NextHarvest ==
    \/ HarvestInputBegin
    \/ \E answer \in CatalogAnswers : HarvestRule(answer)
    \/ HarvestInputEnd

SpecHarvest == InitHarvest /\ [][NextHarvest]_vars

(***************************************************************************)
(* The Harvester in the archive run mode, on rows that hold no interval,   *)
(* an interval of three days or an interval of two days.                   *)
(***************************************************************************)
ArchiveRows ==
    {WekeoRow(0, 0, 0), WekeoRow(0, StartDay - 3, StartDay - 1),
     WekeoRow(0, StartDay - 2, StartDay - 1)}

InitArchive ==
    /\ now = StartTime
    /\ triggerer_config = TriggererConfig(StartDay)
    /\ user_interface = NoUserInterface /\ scheduler = NoScheduler
    /\ wekeo_api_manager \in [{"S2MSI1C", "IW_GRDH_1S"} -> ArchiveRows]
    /\ harvester = [HarvesterAtStart EXCEPT !.harvesting_run_mode = "archive"]
    /\ raw_inputs = {} /\ trigger_validation = {} /\ raw2valid = {}
    /\ processing_tasks = {} /\ products = {}
    /\ nomad_job_dispatch = {} /\ pt2nomad = {} /\ psw = {} /\ allocs = {}
    /\ trig = [pc |-> "down", consuming |-> TRUE, notifies |-> <<>>,
               queue |-> <<>>, orphan_ref |-> <<>>]
    /\ orch = [listening |-> FALSE, consuming |-> FALSE, notifies |-> <<>>, queue |-> <<>>]
    /\ launcher = LauncherOf("eo1.large")
    /\ upstream = Deliveries({"g1", "l1"}, {})

SpecArchive == InitArchive /\ [][NextHarvest]_vars

(***************************************************************************)
(* The GFSC rule on a store where the Orchestrator has created the task of *)
(* one FSC_TC validation, of an L2A measured yesterday or nine days ago;   *)
(* the Launcher of eo1.large dispatches it, the worker ends it, the        *)
(* product registry presents two FSC products measured yesterday.          *)
(***************************************************************************)
GfscBookmarks == {StartDay - 9, StartDay - 2}

InitGfsc ==
    /\ now = StartTime
    /\ wekeo_api_manager = [t \in {"S2MSI1C", "IW_GRDH_1S"} |->
                               WekeoRow(nrt_harvest_start_date, 0, 0)]
    /\ harvester = HarvesterAtStart
    /\ triggerer_config \in {TriggererConfig(d) : d \in GfscBookmarks}
    /\ user_interface = NoUserInterface /\ scheduler = NoScheduler
    /\ upstream = Deliveries({"f3", "f4"}, {})
    /\ \E i \in {"a1", "a2"} :
          /\ raw_inputs = {RawInputRow(i, StartTime)}
          /\ trigger_validation = {ValidationRow(1, "FSC_TC", RawInputRow(i, StartTime))}
          /\ raw2valid = {<<1, i>>}
    /\ processing_tasks = {[id |-> 1, trigger_validation_fk_id |-> 1,
                            creation_date |-> StartTime, has_ended |-> FALSE,
                            processing_date |-> NoDay]}
    /\ products = {}
    /\ nomad_job_dispatch = {} /\ pt2nomad = {} /\ psw = {} /\ allocs = {}
    /\ trig = [pc |-> "running", consuming |-> TRUE, notifies |-> <<>>,
               queue |-> <<>>, orphan_ref |-> <<>>]
    /\ orch = [listening |-> FALSE, consuming |-> FALSE, notifies |-> <<>>, queue |-> <<>>]
    /\ launcher = LauncherOf("eo1.large")

NextGfsc ==
    \/ \E i \in {"f3", "f4"} : HandleProductNotification(i)
    \/ gfsc_daily_tasks
    \/ LauncherLaunch
    \/ LauncherHandleNotify
    \/ LauncherHandleProcessingTaskInput
    \/ \E uuid \in 1..MaxDispatch, ok \in BOOLEAN : WorkerEnds(uuid, ok)

SpecGfsc == InitGfsc /\ [][NextGfsc]_vars

(***************************************************************************)
(* The Triggerer and the partial GRDH: the catalog presents the two        *)
(* adjacent partials p1 and p2 of one tile, day and orbit, at any time of  *)
(* the two hours; the store may hold p3, a partial of the same tile and    *)
(* day on another orbit, harvested one hour before.                        *)
(***************************************************************************)
InitGrdh ==
    /\ now = StartTime
    /\ triggerer_config = TriggererConfig(StartDay)
    /\ user_interface = NoUserInterface /\ scheduler = NoScheduler
    /\ InitParams
    /\ upstream = Deliveries({"p1", "p2"}, {})
    /\ raw_inputs \in {{}, {RawInputRow("p3", StartTime - 60)}}
    /\ trigger_validation = {} /\ raw2valid = {}
    /\ processing_tasks = {} /\ products = {}
    /\ nomad_job_dispatch = {} /\ pt2nomad = {} /\ psw = {} /\ allocs = {}
    /\ trig = [pc |-> "running", consuming |-> TRUE, notifies |-> <<>>,
               queue |-> <<>>, orphan_ref |-> <<>>]
    /\ orch = [listening |-> FALSE, consuming |-> FALSE, notifies |-> <<>>, queue |-> <<>>]
    /\ launcher = LauncherOf("hma.large")

NextGrdh ==
    \/ \E i \in {"p1", "p2"} : HarvestInput(i)
    \/ TriggererHandleNotify
    \/ TriggererHandleRawInput
    \/ handle_grdh_raw_inputs
    \/ Tick(60)

SpecGrdh == InitGrdh /\ [][NextGrdh]_vars

(***************************************************************************)
(* Scenario S1, end to end: the store is empty, the services run, the      *)
(* catalog presents the L1C l2 of tile 31TCH, published one hour ago and   *)
(* measured today; the worker of a dispatch ends successfully.  The loops  *)
(* of the services never end by themselves, and the scheduler accepts a    *)
(* submission and reports a status of the map if it is asked again and     *)
(* again.                                                                  *)
(***************************************************************************)
InitS1 ==
    /\ InitStore
    /\ upstream = Deliveries({"l2"}, {})
    /\ launcher = LauncherOf("eo1.large")

NextS1 ==
    \/ HarvestInput("l2")
    \/ TriggererListen
    \/ TriggererNotifyAgain
    \/ TriggererHandleNotify
    \/ TriggererHandleRawInput
    \/ TriggererHandleL1cRawInputs
    \/ OrchestratorRunCycle
    \/ OrchestratorHandleNotify
    \/ OrchestratorHandleR2vInput
    \/ LauncherLaunch
    \/ LauncherHandleNotify
    \/ LauncherHandleUndispatchedPt
    \/ LauncherHandleProcessingTaskInput
    \/ \E uuid \in 1..MaxDispatch : WorkerEnds(uuid, TRUE)

SpecS1 ==
    /\ InitS1 /\ [][NextS1]_vars
    /\ WF_vars(HarvestInput("l2"))
    /\ WF_vars(TriggererListen) /\ WF_vars(TriggererNotifyAgain)
    /\ WF_vars(TriggererHandleL1cRawInputs)
    /\ WF_vars(OrchestratorRunCycle)
    /\ WF_vars(OrchestratorHandleNotify)
    /\ WF_vars(OrchestratorHandleR2vInput)
    /\ WF_vars(LauncherLaunch)
    /\ WF_vars(LauncherHandleNotify)
    /\ SF_vars(LauncherHandleProcessingTaskInput /\ psw' # psw)

(***************************************************************************)
(* The task group of one Launcher through its periodic restarts, the       *)
(* dispatcher statement by statement, on the store of InitLaunch.          *)
(***************************************************************************)
InitCycle == InitLaunch

NextCycle ==
    \/ CycleStartTasks
    \/ CycleStopTasks
    \/ \E task \in TaskNames : TaskCancelled(task)
    \/ CycleHandleNotify
    \/ CycleHandleUndispatchedPt
    \/ DispatcherSubmit
    \/ DispatcherInsertEdge
    \/ DispatcherInsertStatus

SpecCycle == InitCycle /\ [][NextCycle]_vars

(***************************************************************************)
(* Properties.                                                             *)
(***************************************************************************)
EdgesOf(tv_id) == {e \in raw2valid : e[1] = tv_id}
TasksOf(tv_id) == {pt \in processing_tasks : pt.trigger_validation_fk_id = tv_id}
ValidationsOf(raw_input_id, tc_name) ==
    {t \in trigger_validation : /\ t.triggering_condition_name = tc_name
                                /\ <<t.id, raw_input_id>> \in raw2valid}

\* C1: a trigger_validation never has more than one processing task, whatever
\* the order and the number of the raw2valid_insertion notifications (one per
\* edge, duplicates, the re-notification of a new cycle).
C1_OneTaskPerValidation ==
    \A t \in trigger_validation : Cardinality(TasksOf(t.id)) <= 1

\* A validation with two edges has its task while a further notification for
\* it is at the head of the Orchestrator queue.
C1_Witness ==
    /\ orch.queue # <<>>
    /\ Cardinality(EdgesOf(Head(orch.queue)[1])) >= 2
    /\ Cardinality(TasksOf(Head(orch.queue)[1])) = 1

\* C2: for every raw input and rule there is at most one trigger_validation
\* referencing the input under that rule.
C2_OneValidationPerInputAndRule ==
    \A r \in raw_inputs : \A t \in trigger_validation :
        Cardinality(ValidationsOf(r.id, t.triggering_condition_name)) <= 1

\* C5: the ids of raw_inputs are unique and a row, once inserted, is never
\* changed: inserting an id again with other values is a no-op.
C5_InsertTwiceIsNoOp ==
    [][/\ \A r \in raw_inputs : r \in raw_inputs'
       /\ \A r1, r2 \in raw_inputs' : r1.id = r2.id => r1 = r2]_vars

\* An input delivered twice, the second time after the clock has moved.
C5_Witness ==
    \E r \in raw_inputs : /\ upstream[r.id] = 0
                          /\ r.harvesting_date < now
                          /\ Items[r.id].product_type_code \in eligible_product_list


(***************************************************************************)
(* Properties of the Launcher.                                             *)
(***************************************************************************)
LostRows(njd_id) == {w \in StatusesOf(njd_id) : w.exit_code = "404"}
SweptTasks ==
    {pt \in processing_tasks :
        ~pt.has_ended /\ \E d \in DispatchesOf(pt.id) : LostRows(d) # {}}
NoCallbackRows ==
    {row \in GET_UNFINISHED_PT_REQUEST(launcher.flavour) : StatusesOf(row[3]) = {}}

\* C3: a task with has_ended = true gets no further dispatch and no further
\* PT2Nomad edge, whatever notification is still queued or delivered later.
C3_EndedTaskIsTerminal ==
    [][\A pt \in processing_tasks :
          pt.has_ended =>
             {e \in pt2nomad' : e[2] = pt.id} = {e \in pt2nomad : e[2] = pt.id}]_vars

\* C6: the sweeper writes at most one internal_error / 404 row for a dispatch,
\* however many passes follow and whichever flavour the Launcher serves.
C6_One404RowPerDispatch ==
    \A d \in nomad_job_dispatch : Cardinality(LostRows(d)) <= 1

\* C7 as stated: a task whose dispatch got the 404 row is in the output of
\* the undispatched re-driver.
C7_SweptTaskIsUndispatched ==
    \A pt \in SweptTasks : pt \in GET_UNDISPATCHED_PT_REQUEST(launcher.flavour)

\* C7: a task whose dispatch got the 404 row is, until it ends, in the output
\* of the in-error re-driver and not in that of the undispatched re-driver.
C7_SweptTaskIsInError ==
    \A pt \in SweptTasks :
        /\ pt \in GET_IN_ERROR_PT_REQUEST(launcher.flavour)
        /\ pt \notin GET_UNDISPATCHED_PT_REQUEST(launcher.flavour)

C7_Witness ==
    /\ SweptTasks # {}
    /\ launcher.listening
    /\ \E n \in Range(launcher.notifies) : n.id \in {pt.id : pt \in SweptTasks}

\* C9: a pass of the sweeper puts a dispatch without callback in error
\* exactly when the scheduler has no record of the job or more than one hour
\* has passed since the dispatch.
C9_NoCallbackRelaunchedAfterOneHour ==
    \A row \in NoCallbackRows :
        row[3] \in LostDispatches
            <=> \/ get_job_dispatch_duration(row[3]) = 0
                \/ get_job_dispatch_duration(row[3]) > 3600


\* C8: in the finite-run form.  When the dispatcher relaunches a task whose
\* dispatch D got the 404 row and the scheduler accepts the job, a dispatch
\* D' with a UUID different from D's is persisted for the task.
C8_RelaunchCreatesNewDispatch ==
    [][\A pt \in SweptTasks :
          (\E a \in allocs' : a.job = pt.id /\ a.id \notin {b.id : b \in allocs})
             => \E d \in nomad_job_dispatch' \ nomad_job_dispatch :
                   <<d, pt.id>> \in pt2nomad']_vars


\* C4: every trigger_validation row has at least one raw2valid edge in every
\* reachable state of the store.
C4_EveryValidationHasAnEdge ==
    \A t \in trigger_validation : EdgesOf(t.id) # {}


\* C10: a pass of the Triggerer creates no CC_TC validation for an L1C of a
\* tile on which a CC task is open (has_ended = false) for a measurement day
\* lower than or equal to that of the L1C.
OpenCcDays(tile) ==
    {r.measurement_day :
        r \in UNION {{x \in InputsOf(pt) : x.tile = tile /\ x.product_type_code = "S2MSI1C"} :
                 pt \in {q \in processing_tasks : ~q.has_ended /\ TcOf(q) = "CC_TC"}}}

C10_OpenCcTaskBlocksTheTile ==
    [][\A t \in trigger_validation' \ trigger_validation :
          t.triggering_condition_name = "CC_TC" =>
             \A r \in raw_inputs :
                (<<t.id, r.id>> \in raw2valid' /\ r.product_type_code = "S2MSI1C")
                   => \A day \in OpenCcDays(r.tile) : day > r.measurement_day]_vars

(***************************************************************************)
(* NRT classification.                                                     *)
(***************************************************************************)
\* the past harvest date of a product type, 0 when there is none
Bookmark(product_type_code) ==
    IF product_type_code \in DOMAIN wekeo_api_manager
    THEN wekeo_api_manager[product_type_code].nrt_harvest_start_date
    ELSE 0

NrtPolicy(r) ==
    IF Bookmark(r.product_type_code) # 0
    THEN r.measurement_day >= Bookmark(r.product_type_code)
    ELSE /\ r.publishing_date <= r.harvesting_date
         /\ r.harvesting_date <= r.publishing_date + ThreeHours

\* C11: every trigger validation a step creates for a new raw input R has
\* is_nrt equal to the policy: with a past harvest date for R's product type,
\* measurement_day >= that date; without one, publishing_date <=
\* harvesting_date <= publishing_date + 3 hours.  R is the L1C of a CC_TC
\* validation and the queued input of the others.
C11_IsNrtFollowsThePolicy ==
    [][\A t \in trigger_validation' \ trigger_validation :
          LET R == IF t.triggering_condition_name = "CC_TC"
                   THEN CHOOSE r \in raw_inputs : /\ r.product_type_code = "S2MSI1C"
                                                  /\ <<t.id, r.id>> \in raw2valid'
                   ELSE Head(trig.queue)
          IN  t.is_nrt = NrtPolicy(R)]_vars

\* a validation classified NRT by the past harvest date although its input
\* was harvested more than three hours after its publication
C11_Witness ==
    \E t \in trigger_validation : \E r \in raw_inputs :
        /\ <<t.id, r.id>> \in raw2valid
        /\ t.is_nrt
        /\ r.harvesting_date > r.publishing_date + ThreeHours

(***************************************************************************)
(* Restart of the Orchestrator.                                            *)
(***************************************************************************)
HasEdge(v) == \E e \in raw2valid : e[1] = v
HasTask(v) == \E pt \in processing_tasks : pt.trigger_validation_fk_id = v

\* C12: a trigger validation with a Raw2Valid edge and no processing task
\* eventually receives its processing task once the Orchestrator (re)starts,
\* whether or not its raw2valid_insertion notification reached a session.
C12_UnprocessedValidationGetsItsTask ==
    \A v \in 1..(MaxTV + 1) : (HasEdge(v) /\ ~HasTask(v)) ~> HasTask(v)

\* the validation made while the Orchestrator was down has its task
C12_Witness ==
    /\ orch.listening
    /\ HasEdge(1) /\ HasTask(1)

(***************************************************************************)
(* The work queue of the Launcher.                                         *)
(***************************************************************************)
NoTaskTwice(queue) ==
    \A j, k \in DOMAIN queue : queue[j].id = queue[k].id => j = k

OpenDispatches(pt_id) ==
    {d \in DispatchesOf(pt_id) : \A w \in StatusesOf(d) : w.exit_code = NoCode}

\* C14: a step never adds a dispatch to a task that has a dispatch without a
\* recorded exit code, and every unfinished task has at most one such dispatch.
C14_AtMostOneOpenDispatch ==
    [][/\ \A e \in pt2nomad' \ pt2nomad : OpenDispatches(e[2]) = {}
       /\ \A pt \in processing_tasks' :
              ~pt.has_ended =>
                  Cardinality({d \in {e[1] : e \in {x \in pt2nomad' : x[2] = pt.id}} :
                                  \A w \in psw' : w.nomad_job_dispatch_fk_id = d
                                                     => w.exit_code = NoCode}) <= 1]_vars

(***************************************************************************)
(* The rows of a submission.                                               *)
(***************************************************************************)
\* the status ids the scheduler's initial status maps to
InitialStatusIds ==
    {ProcessingStatusId(n) : n \in {"started", "pending", "internal_error", "processed"}}

InitialRows(rows, d) ==
    {w \in rows : /\ w.nomad_job_dispatch_fk_id = d
                   /\ w.exit_code = NoCode
                   /\ w.processing_status_id \in InitialStatusIds}

\* C15: a step that submits a job (the scheduler holds a new allocation)
\* adds exactly one NomadJobDispatch row, one PT2Nomad edge of that dispatch
\* and one initial status row of that dispatch, its status mapped from the
\* scheduler's; every NomadJobDispatch row has a PT2Nomad edge and an
\* initial status row.
C15_SubmissionPersistsItsThreeRows ==
    [][/\ (\E a \in allocs' : a.id \notin {b.id : b \in allocs}) =>
             \E d \in nomad_job_dispatch' \ nomad_job_dispatch :
                /\ nomad_job_dispatch' = nomad_job_dispatch \cup {d}
                /\ \E e \in pt2nomad' : e[1] = d /\ pt2nomad' = pt2nomad \cup {e}
                /\ \E w \in InitialRows(psw', d) : psw' = psw \cup {w}
       /\ \A d \in nomad_job_dispatch' :
              /\ \E e \in pt2nomad' : e[1] = d
              /\ InitialRows(psw', d) # {}]_vars

(***************************************************************************)
(* The in-error re-driver.                                                 *)
(***************************************************************************)
\* the status of the most recent status row of a task, 0 without a row
LatestStatus(pt_id) ==
    LET rows == UNION {StatusesOf(d) : d \in DispatchesOf(pt_id)}
    IN  IF rows = {} THEN 0
        ELSE (CHOOSE w \in rows : \A x \in rows : x.n <= w.n).processing_status_id

LatestInError(flavour) ==
    {pt \in processing_tasks :
        /\ NrtTaskOfFlavour(pt, flavour)
        /\ ~pt.has_ended
        /\ LatestStatus(pt.id) \in {ProcessingStatusId("internal_error"),
                                    ProcessingStatusId("external_error")}}

\* C16: a pass of the in-error re-driver (a step that notifies dispatched
\* tasks again) notifies exactly the unfinished tasks of the Launcher's
\* flavour whose latest status is internal_error or external_error.
C16_InErrorPassNotifiesLatestInError ==
    [][LET before == Len(launcher.notifies)
           added == SubSeq(launcher'.notifies, before + 1, Len(launcher'.notifies))
       IN  (/\ Len(launcher'.notifies) > before
            /\ launcher' = [launcher EXCEPT !.notifies = launcher.notifies \o added]
            /\ \E n \in Range(added) : DispatchesOf(n.id) # {})
           => {n.id : n \in Range(added)}
                 = {pt.id : pt \in LatestInError(launcher.flavour)}]_vars

C18_MalformedItemIsSkipped ==
    [][/\ (/\ trig.consuming
           /\ trig.queue # <<>>
           /\ trig'.queue = Tail(trig.queue)
           /\ TriggeringConditionRaises(Head(trig.queue)))
          => (trig'.consuming /\ UNCHANGED <<trigger_validation, raw2valid>>)
       /\ (/\ orch.consuming
           /\ orch.queue # <<>>
           /\ orch'.queue = Tail(orch.queue)
           /\ CreateProcessingTaskRaises(Head(orch.queue)))
          => (orch'.consuming /\ UNCHANGED processing_tasks)]_vars

(***************************************************************************)
(* Catalog failures.                                                       *)
(***************************************************************************)
\* C19: when the catalog call of a rule fails during a harvest cycle, the
\* Harvester keeps running and the start date of that rule is not moved past
\* the chunk whose call failed, so that the rule asks for it again.
C19_FailedChunkIsAskedAgain ==
    [][(/\ CallsCatalog
        /\ harvester' # harvester
        /\ harvester'.answer # "candidates")
       => /\ harvester'.alive
          /\ harvester'.harvest_dates[wekeo_rules[harvester.rule]]
                <= harvester.harvest_dates[wekeo_rules[harvester.rule]]]_vars

(***************************************************************************)
(* Periodic restart of a task group.                                       *)
(***************************************************************************)
\* C20: at a periodic restart no task is ended between the writes of one
\* submission (dispatch row, edge, status row), and the tasks of the next
\* cycle are started only once every task of the previous cycle has ended.
C20_RestartAbortsNoUnit ==
    [][/\ \A task \in TaskNames :
            (launcher.stopping /\ launcher'.tasks[task] = "ended"
                               /\ launcher.tasks[task] # "ended")
            => (~BetweenWrites(launcher.tasks[task]) /\ launcher.unit = NoUnit)
       /\ (launcher.stopping /\ ~launcher'.stopping)
            => \A task \in TaskNames : launcher.tasks[task] = "ended"]_vars

\* the stop signal has been raised in a cycle that submitted a job, and every
\* task of the group has ended
C20_Witness ==
    /\ launcher.stopping
    /\ \A task \in TaskNames : launcher.tasks[task] = "ended"
    /\ pt2nomad # {}

(***************************************************************************)
(* Harvesting bookmarks.                                                   *)
(***************************************************************************)
\* C21: the stored nrt_harvest_start_date never moves backwards: no step of
\* the Harvester stores a date earlier than the one it replaces (NULL, 0, is
\* not a date).
C21_BookmarkNeverMovesBackwards ==
    [][\A t \in DOMAIN wekeo_api_manager :
          wekeo_api_manager'[t].nrt_harvest_start_date # 0
             => wekeo_api_manager'[t].nrt_harvest_start_date
                   >= wekeo_api_manager[t].nrt_harvest_start_date]_vars

\* a harvest of the past has walked its chunks and has written the bookmarks
C21_Witness ==
    /\ harvester.past_recovery
    /\ harvester.rule = 0 /\ harvester.continuous_harvester
    /\ harvester.queried # <<>>
    /\ \A t \in DOMAIN wekeo_api_manager : wekeo_api_manager[t].nrt_harvest_start_date = 0

\* C22: a bookmark is set to NULL only when the catch-up is complete: the
\* step that clears a stored start date finds the start date of every rule
\* exhausted, and no chunk of the catch-up whose query failed.
C22_BookmarkClearedOnlyAfterCompleteCatchUp ==
    [][(\E t \in DOMAIN wekeo_api_manager :
           /\ wekeo_api_manager[t].nrt_harvest_start_date # 0
           /\ wekeo_api_manager'[t].nrt_harvest_start_date = 0)
       => /\ \A t \in DOMAIN harvester.harvest_dates : harvester.harvest_dates[t] = 0
          /\ harvester.failed = {}]_vars

\* the windows harvest_input has asked the catalog for a rule, in order
WindowsOf(input_type) ==
    SelectSeq(harvester.queried, LAMBDA w : w.input_type = input_type)

\* the windows of a rule are one-day chunks, each one starting where the one
\* before it ends, the first one at the stored start date
ConsecutiveChunks(input_type) ==
    LET windows == WindowsOf(input_type)
    IN  /\ \A k \in DOMAIN windows :
              /\ windows[k].max_publication_date = windows[k].min_publication_date + 1
              /\ k > 1 => windows[k].min_publication_date
                              = windows[k - 1].max_publication_date
        /\ (windows # <<>> /\ wekeo_api_manager[input_type].archive_harvest_start_date # 0)
              => windows[1].min_publication_date
                    = wekeo_api_manager[input_type].archive_harvest_start_date

\* the catch-up of the archive run mode has ended
ArchiveWalkEnded ==
    /\ harvester.harvesting_run_mode = "archive"
    /\ harvester.past_recovery
    /\ harvester.rule = 0 /\ harvester.alive

\* C23: in the archive run mode the windows queried for a rule are
\* consecutive one-day chunks starting at archive_harvest_start_date, each
\* queried once, and the walk ends when the start date of the next chunk
\* reaches archive_harvest_end_date: no chunk goes beyond the end date.
C23_ArchiveWalkEndsAtEndDate ==
    \A t \in DOMAIN wekeo_api_manager :
        /\ ConsecutiveChunks(t)
        /\ \A k \in DOMAIN WindowsOf(t) :
              WindowsOf(t)[k].max_publication_date <= harvester.harvest_end_dates[t]

\* C23, amended: the walk ends when the start date of the next chunk has
\* passed archive_harvest_end_date: the last chunk queried is the one that
\* starts at the end date, and a walk that has ended has queried one chunk
\* for every day from the start date to the end date.
C23_ArchiveWalkEndsAfterEndDate ==
    \A t \in DOMAIN wekeo_api_manager :
        /\ ConsecutiveChunks(t)
        /\ \A k \in DOMAIN WindowsOf(t) :
              WindowsOf(t)[k].min_publication_date <= harvester.harvest_end_dates[t]
        /\ (ArchiveWalkEnded /\ WindowsOf(t) # <<>>)
              => WindowsOf(t)[Len(WindowsOf(t))].min_publication_date
                    = harvester.harvest_end_dates[t]

\* a walk of two rules with different intervals has ended
C23_Witness ==
    /\ ArchiveWalkEnded
    /\ Len(WindowsOf("S2MSI1C")) = 3
    /\ Len(WindowsOf("IW_GRDH_1S")) = 2

(***************************************************************************)
(* The GFSC rule.                                                          *)
(***************************************************************************)
\* the tasks of the rules one of whose inputs was measured on the day
TasksOfDay(tc_names, day) ==
    {pt \in processing_tasks : /\ TcOf(pt) \in tc_names
                               /\ \E r \in InputsOf(pt) : r.measurement_day = day}
\* a task that has ended with a processed status as its latest
TerminallySuccessful(pt) ==
    pt.has_ended /\ LatestStatus(pt.id) = ProcessingStatusId("processed")
GfscValidations(tvs) == {t \in tvs : t.triggering_condition_name = "GFSC_TC"}

\* C24: a run of the GFSC rule creates no GFSC_TC validation with
\* artificial_measurement_day D while some FSC_TC or SWS_TC task of day D is
\* not terminally successful.
C24_NoGfscForUnfinishedDay ==
    [][\A t \in GfscValidations(trigger_validation') \ trigger_validation :
          \A pt \in TasksOfDay({"FSC_TC", "SWS_TC"}, t.artificial_measurement_day) :
              TerminallySuccessful(pt)]_vars


\* the rules whose tasks the GFSC rule waits for
GfscAwaitedRules == {"CC_TC", "Backscatter_10m_TC", "FSC_TC", "SWS_TC"}
\* an open task that is not dispatched, or one of whose dispatches has a
\* latest status row that is neither processed nor terminated
NotSuccessfullyProcessed(pt) ==
    /\ ~pt.has_ended
    /\ \/ DispatchesOf(pt.id) = {}
       \/ \E d \in DispatchesOf(pt.id) : \E w \in StatusesOf(d) :
             /\ \A v \in StatusesOf(d) : v.n <= w.n
             /\ w.processing_status_id \notin {ProcessingStatusId("processed"),
                                               ProcessingStatusId("terminated")}
FailedDay(day) ==
    \E pt \in TasksOfDay(GfscAwaitedRules, day) : NotSuccessfullyProcessed(pt)

GfscInputsOf(tv_id) == {e[2] : e \in EdgesOf(tv_id)}

\* C26: no two GFSC_TC validations of the same tile and the same
\* artificial_measurement_day have the same set of inputs, and a run creates
\* a validation only with a set of inputs that no validation of the day had.
C26_NoSecondGfscForSameInputs ==
    /\ \A t, u \in GfscValidations(trigger_validation) :
          (/\ t.id # u.id
           /\ t.artificial_measurement_day = u.artificial_measurement_day
           /\ {r.tile : r \in DbInputsOf(Db(trigger_validation, raw2valid), t.id)}
                 = {r.tile : r \in DbInputsOf(Db(trigger_validation, raw2valid), u.id)})
             => GfscInputsOf(t.id) # GfscInputsOf(u.id)
    /\ \A t \in GfscValidations(trigger_validation) : GfscInputsOf(t.id) # {}

\* the rule has run again on a day it had a validation for, and has created
\* a second one with the input that arrived in between
C26_Witness ==
    \E t, u \in GfscValidations(trigger_validation) :
        /\ t.id # u.id
        /\ t.artificial_measurement_day = u.artificial_measurement_day
        /\ GfscInputsOf(t.id) = {"f3"} /\ GfscInputsOf(u.id) = {"f3", "f4"}

(***************************************************************************)
(* The partial GRDH.                                                       *)
(***************************************************************************)
\* the Backscatter_10m_TC validations of a set of validations that reference the input
BackscatterOf(tvs, r2v, raw_input_id) ==
    {t \in tvs : /\ t.triggering_condition_name = "Backscatter_10m_TC"
                 /\ <<t.id, raw_input_id>> \in r2v}
InputsOfValidation(r2v, tv_id) == {e[2] : e \in {x \in r2v : x[1] = tv_id}}

\* p1 and p2 are in the store, harvested less than 2 hours apart
PairHarvested ==
    \E a, b \in raw_inputs :
        /\ a.id = "p1" /\ b.id = "p2"
        /\ a.harvesting_date - b.harvesting_date < TwoHours
        /\ b.harvesting_date - a.harvesting_date < TwoHours

\* C27: two adjacent partial GRDH of one tile, day and orbit harvested less
\* than 2 hours apart have, after a periodic pass, exactly one
\* Backscatter_10m_TC validation, whose raw2valid edges are the two of them;
\* no step gives either of them another validation.
C27_PairGetsOneValidation ==
    [][/\ PairHarvested'
          => LET tvs == BackscatterOf(trigger_validation', raw2valid', "p1")
                           \cup BackscatterOf(trigger_validation', raw2valid', "p2")
             IN  /\ Cardinality(tvs) <= 1
                 /\ \A t \in tvs : InputsOfValidation(raw2valid', t.id) = {"p1", "p2"}
       /\ (PairHarvested /\ handle_grdh_raw_inputs)
          => Cardinality(BackscatterOf(trigger_validation', raw2valid', "p1")) = 1]_vars

\* the pair has its validation and a periodic pass has run after it
C27_Witness ==
    /\ PairHarvested
    /\ \E t \in trigger_validation : InputsOfValidation(raw2valid, t.id) = {"p1", "p2"}
    /\ \E r \in raw_inputs : r.id = "p1" /\ r.harvesting_date < now

\* C28: a periodic pass that finds an unprocessed partial GRDH harvested 2
\* hours ago or more, alone of its tile, day and orbit, gives it a
\* validation with this single input; no partial GRDH ever has two
\* validations.
C28_OrphanGetsOneValidation ==
    [][/\ handle_grdh_raw_inputs
          => \A r \in GET_GRDH_UNPROCESSED(Db(trigger_validation, raw2valid)) :
                (/\ r.harvesting_date + TwoHours <= now
                 /\ \A x \in GET_GRDH_UNPROCESSED(Db(trigger_validation, raw2valid)) :
                       GrdhKey(x) = GrdhKey(r) => x = r)
                   => \E t \in BackscatterOf(trigger_validation', raw2valid', r.id) :
                         InputsOfValidation(raw2valid', t.id) = {r.id}
       /\ \A r \in raw_inputs :
             r.is_partial
                => Cardinality(BackscatterOf(trigger_validation', raw2valid', r.id)) <= 1]_vars

(***************************************************************************)
(* Cloud Cover with a prior L2A.                                           *)
(***************************************************************************)
\* C29: when the store holds the L2A a1 of tile 31TCH, measured within the
\* 90 days before today, the CC_TC validation created for the L1C l2 of the
\* tile and of today has exactly the raw2valid edges {l2, a1}.
C29_NominalValidationHasTheL2a ==
    [][\A t \in trigger_validation' \ trigger_validation :
          (/\ t.triggering_condition_name = "CC_TC"
           /\ <<t.id, "l2">> \in raw2valid'
           /\ \E r \in raw_inputs : r.id = "a1")
             => InputsOfValidation(raw2valid', t.id) = {"l2", "a1"}]_vars

(***************************************************************************)
(* Scenario S1.                                                            *)
(***************************************************************************)
S1Validations == {t \in trigger_validation : t.triggering_condition_name = "CC_TC"}
\* one validation of the L1C, classified NRT, one task of it, one dispatch
\* with a pending or started status row
S1Reached ==
    /\ \E t \in S1Validations :
          /\ S1Validations = {t}
          /\ InputsOfValidation(raw2valid, t.id) = {"l2"}
          /\ t.is_nrt
          /\ \E pt \in processing_tasks :
                /\ processing_tasks = {pt}
                /\ pt.trigger_validation_fk_id = t.id
    /\ \E d \in nomad_job_dispatch :
          /\ nomad_job_dispatch = {d}
          /\ \E w \in StatusesOf(d) :
                w.processing_status_id \in {ProcessingStatusId("pending"),
                                            ProcessingStatusId("started")}
S1NoSecond ==
    /\ Cardinality(S1Validations) <= 1
    /\ Cardinality(processing_tasks) <= 1
    /\ Cardinality(nomad_job_dispatch) <= 1

\* C30: in scenario S1 the pipeline eventually has exactly one CC_TC
\* validation with the single edge to the L1C and is_nrt = true, exactly
\* one processing task of it and exactly one dispatch with a pending or
\* started status row, and it never has a second validation, task or
\* dispatch.
C30_S1EndToEnd == <>S1Reached /\ []S1NoSecond

(***************************************************************************)
(* The non-partial GRDH.                                                   *)
(***************************************************************************)
NonPartialGrdh == {r \in raw_inputs : r.product_type_code = "IW_GRDH_1S" /\ ~r.is_partial}

\* C31: a non-partial IW_GRDH_1S input has at most one Backscatter_10m_TC
\* validation, whose only edge is that input, however many times its
\* insertion was notified (the insert trigger, the re-notification of the
\* unprocessed inputs at the start of the Triggerer).
C31_NonPartialGrdhFiresOnce ==
    \A r \in NonPartialGrdh :
        /\ Cardinality(BackscatterOf(trigger_validation, raw2valid, r.id)) <= 1
        /\ \A t \in BackscatterOf(trigger_validation, raw2valid, r.id) :
              InputsOfValidation(raw2valid, t.id) = {r.id}

(***************************************************************************)
(* The Triggerer and the WDS rule: the first stage presents the backscatter *)
(* product s1 and the FSC products f1 and f2 of the same tile and day, the *)
(* catalog presents the non-partial GRDH g1 of that tile and day, in any   *)
(* order, before or after the Triggerer listens.                           *)
(***************************************************************************)
InitWds ==
    /\ InitStore
    /\ launcher = LauncherOf("eo1.large")
    /\ upstream = Deliveries({"s1", "f1", "f2", "g1"}, {})

NextWds ==
    \/ HarvestInput("g1")
    \/ \E i \in {"s1", "f1", "f2"} : HandleProductNotification(i)
    \/ TriggererListen
    \/ TriggererNotifyAgain
    \/ TriggererHandleNotify
    \/ TriggererHandleRawInput

SpecWds == InitWds /\ [][NextWds]_vars

WdsValidations == {t \in trigger_validation : t.triggering_condition_name = "WDS_TC"}
RowsOfValidation(tv_id) == {r \in raw_inputs : r.id \in InputsOfValidation(raw2valid, tv_id)}

\* C32: every WDS_TC validation bundles exactly one S1_NRB_L2A input with at
\* least one S2_FSC_L2B input, all of one tile and one measurement_day, and
\* nothing else; hence none exists for a backscatter input without an FSC
\* partner.
C32_WdsHasAnFscPartner ==
    \A t \in WdsValidations :
        \E b \in RowsOfValidation(t.id) :
            /\ b.product_type_code = "S1_NRB_L2A"
            /\ RowsOfValidation(t.id) \ {b} # {}
            /\ \A f \in RowsOfValidation(t.id) \ {b} :
                  /\ f.product_type_code = "S2_FSC_L2B"
                  /\ f.tile = b.tile
                  /\ f.measurement_day = b.measurement_day

\* The backscatter input was handled while it had no FSC partner (it has its
\* SWS_TC validation, older than any WDS_TC one) and a WDS_TC validation was
\* created later, when an FSC arrived.
C32_Witness ==
    /\ \E r \in raw_inputs : r.product_type_code = "IW_GRDH_1S"
    /\ \E t \in WdsValidations : \E w \in ValidationsOf("s1", "SWS_TC") :
          /\ w.id < t.id
          /\ "s1" \in InputsOfValidation(raw2valid, t.id)

(***************************************************************************)
(* Archive Launcher of eo1.large on a store that holds four undispatched   *)
(* tasks: CC_TC on the L1C of days 45 and 48, GFSC_TC of day 51 on the FSC *)
(* of days 49 and 51, CC_TC on the L1C of day 52 (20250115 is day 50).     *)
(***************************************************************************)
ArchiveSeeds == <<{"l0"}, {"l7"}, {"f5", "f6"}, {"l9"}>>

InitArcLaunch ==
    /\ now = StartTime
    /\ triggerer_config = TriggererConfig(StartDay)
    /\ user_interface = NoUserInterface /\ scheduler = NoScheduler
    /\ InitParams
    /\ upstream = Deliveries({}, {})
    /\ raw_inputs = {RawInputRow(i, StartTime) : i \in {"l0", "l7", "f5", "f6", "l9"}}
    /\ trigger_validation =
          {IF k = 3
           THEN [ValidationRow(k, "GFSC_TC", RawInputRow("f5", StartTime))
                    EXCEPT !.artificial_measurement_day = 51]
           ELSE ValidationRow(k, "CC_TC",
                              RawInputRow(CHOOSE i \in ArchiveSeeds[k] : TRUE, StartTime))
             : k \in DOMAIN ArchiveSeeds}
    /\ raw2valid = UNION {{<<k, i>> : i \in ArchiveSeeds[k]} : k \in DOMAIN ArchiveSeeds}
    /\ processing_tasks =
          {[id |-> k, trigger_validation_fk_id |-> k, creation_date |-> StartTime,
            has_ended |-> FALSE,
            processing_date |-> IF k = 3 THEN 51 ELSE NoDay] : k \in DOMAIN ArchiveSeeds}
    /\ products = {}
    /\ nomad_job_dispatch = {} /\ pt2nomad = {} /\ psw = {} /\ allocs = {}
    /\ trig = [pc |-> "down", consuming |-> TRUE, notifies |-> <<>>,
               queue |-> <<>>, orphan_ref |-> <<>>]
    /\ orch = [listening |-> FALSE, consuming |-> FALSE, notifies |-> <<>>, queue |-> <<>>]
    /\ launcher = LauncherOf("eo1.large")

NextArcLaunch ==
    \/ ArchiveLauncherLaunch
    \/ handle_unprocessed_pt
    \/ LauncherHandleProcessingTaskInput
    \/ \E uuid \in 1..MaxDispatch, ok \in BOOLEAN : WorkerEnds(uuid, ok)

SpecArcLaunch == InitArcLaunch /\ [][NextArcLaunch]_vars

\* the tasks a step puts in the queue of the launcher
EnqueuedByStep == {pt \in processing_tasks : pt.id \in launcher'.set \ launcher.set}
ArchiveLastDay == NRT_FIRST_DAY - 1
\* one of the inputs of the task was measured inside the window that starts
\* at the oldest unprocessed measurement day
InsideTheWindow(pt, oldest) ==
    \E r \in InputsOf(pt) :
        /\ BETWEEN(r.measurement_day, oldest, oldest + measurement_date_interval)
        /\ r.measurement_day <= ArchiveLastDay

\* C33: every task the Archive Launcher puts in the queue has a
\* measurement_day inside [oldest, oldest + measurement_date_interval] capped
\* at 20250114, and none of its measurement days is later than 20250114.
C33_ArchiveEnqueuesOnlyArchiveDays ==
    [][\A pt \in EnqueuedByStep :
          /\ InsideTheWindow(pt, GET_OLDEST_MEASUREMENT_DATE_FROM_UNPROCESSED_PT_REQUEST(
                                     launcher.flavour))
          /\ \A r \in InputsOf(pt) : r.measurement_day <= ArchiveLastDay]_vars

(***************************************************************************)
(* The command line interface of the Harvester service on an environment   *)
(* that is the nominal one, or the nominal one with one variable unset,    *)
(* with another port, or with another run mode and archive dates; then the *)
(* scheduler of the process manager and a call of stop.                    *)
(***************************************************************************)
NominalEnviron ==
    [n \in EnvironmentVariablesNames |->
        CASE n = "HRWSI_HARVESTER_RUN_MODE" -> "NEAR_REAL_TIME"
          [] n = "HRWSI_HARVESTER_DATABASE_PORT" -> "5432"
          [] n \in {"HRWSI_HARVESTER_ARCHIVE_START_DATE",
                    "HRWSI_HARVESTER_ARCHIVE_END_DATE"} -> Unset
          [] OTHER -> "set"]
RunModeValues == {"ARCHIVE", "archive", "NEAR_REAL_TIME", "near_real_time", "DAILY", ""}
PortValues == {"0", "1", "5432", "65534", "65535", "65536", "abc", ""}
DateValues == {Unset, "2024-01-01", "2024-06-01", "01/06/2024"}
Environs ==
    {[NominalEnviron EXCEPT ![n] = Unset] :
        n \in EnvironmentVariablesNames \ {"HRWSI_HARVESTER_ARCHIVE_START_DATE",
                                           "HRWSI_HARVESTER_ARCHIVE_END_DATE"}}
    \cup {[NominalEnviron EXCEPT !["HRWSI_HARVESTER_DATABASE_PORT"] = p] : p \in PortValues}
    \cup {[NominalEnviron EXCEPT !["HRWSI_HARVESTER_RUN_MODE"] = mode,
                                 !["HRWSI_HARVESTER_ARCHIVE_START_DATE"] = from,
                                 !["HRWSI_HARVESTER_ARCHIVE_END_DATE"] = to] :
             mode \in RunModeValues, from \in DateValues, to \in DateValues}

InitCli ==
    /\ now = StartTime
    /\ triggerer_config = TriggererConfig(StartDay)
    /\ user_interface \in {UserInterfaceOf(environ) : environ \in Environs}
    /\ scheduler = NoScheduler
    /\ InitParams
    /\ raw_inputs = {} /\ trigger_validation = {} /\ raw2valid = {}
    /\ processing_tasks = {} /\ products = {}
    /\ nomad_job_dispatch = {} /\ pt2nomad = {} /\ psw = {} /\ allocs = {}
    /\ trig = [pc |-> "down", consuming |-> TRUE, notifies |-> <<>>,
               queue |-> <<>>, orphan_ref |-> <<>>]
    /\ orch = [listening |-> FALSE, consuming |-> FALSE, notifies |-> <<>>, queue |-> <<>>]
    /\ upstream = Deliveries({}, {})
    /\ launcher = LauncherOf("eo1.large")

NextCli ==
    \/ CommandLineUserInterface_start
    \/ Scheduler_run_while
    \/ Scheduler_run_for
    \/ Scheduler_run_sleep
    \/ RunCompletes
    \/ CommandLineUserInterface_stop
    \/ Scheduler_stop_join
    \/ Scheduler_stop_shutdown

SpecCli == InitCli /\ [][NextCli]_vars

\* what the configuration of the claim calls invalid
RequiredNames ==
    EnvironmentVariablesNames \ {"HRWSI_HARVESTER_ARCHIVE_START_DATE",
                                 "HRWSI_HARVESTER_ARCHIVE_END_DATE"}
UnsetRequired(environ) == \E n \in RequiredNames : environ[n] = Unset
ValidRunMode(value) == lower(value) \in {"archive", "near_real_time"}
InvalidRunMode(environ) == ~ValidRunMode(environ["HRWSI_HARVESTER_RUN_MODE"])
InvalidPort(environ) ==
    \/ int(environ["HRWSI_HARVESTER_DATABASE_PORT"]).ValueError
    \/ int(environ["HRWSI_HARVESTER_DATABASE_PORT"]).value \notin 1..65535
InvalidArchiveDates(environ) ==
    LET from == environ["HRWSI_HARVESTER_ARCHIVE_START_DATE"]
        to == environ["HRWSI_HARVESTER_ARCHIVE_END_DATE"]
    IN  /\ lower(environ["HRWSI_HARVESTER_RUN_MODE"]) = "archive"
        /\ \/ from # Unset /\ fromisoformat(from).ValueError
           \/ to # Unset /\ fromisoformat(to).ValueError
           \/ /\ from # Unset /\ to # Unset
              /\ ~fromisoformat(from).ValueError /\ ~fromisoformat(to).ValueError
              /\ fromisoformat(from).value > fromisoformat(to).value
InvalidConfiguration(environ) ==
    \/ UnsetRequired(environ)
    \/ InvalidRunMode(environ)
    \/ InvalidPort(environ)
    \/ InvalidArchiveDates(environ)
NothingScheduled == ~user_interface.manager /\ scheduler = NoScheduler

\* C34: with a required environment variable unset, a run mode that is
\* neither NEAR_REAL_TIME nor ARCHIVE, a port that is not an integer of the
\* range, or archive dates of ARCHIVE mode that do not parse or are
\* inverted, start schedules no harvesting job.
C34_InvalidConfigurationIsFatal ==
    InvalidConfiguration(user_interface.environ) => NothingScheduled

\* C40: when Scheduler.stop returns, the scheduling loop has exited and
\* every run that was submitted to the pool has completed; once it has
\* returned, no further run is submitted.
C40_StopLeavesNothingRunning ==
    [][/\ scheduler'.stop = "returned"
          => /\ scheduler'.thread = "exited"
             /\ scheduler'.completed = scheduler'.submitted
       /\ scheduler.stop = "returned" => scheduler'.submitted = scheduler.submitted]_vars

\* stop has returned after the loop had submitted every run the bound allows
C40_Witness ==
    /\ scheduler.stop = "returned"
    /\ scheduler.stop_event
    /\ scheduler.submitted = MaxRuns

\* C35: a task id is in processing_tasks_set only while its payload is in
\* the queue of the Launcher (the dispatch of the head of the queue is one
\* step): after a dispatch attempt, whatever its outcome, the id is out of
\* the set.
C35_InFlightOnlyWhileQueued ==
    launcher.set \subseteq {n.id : n \in Range(launcher.queue)}

(***************************************************************************)
(* The dispatcher inside collect_uuid.  The loop of collect_uuid has no    *)
(* await: while the dispatcher is at "collect" the event loop runs no      *)
(* other coroutine of the Launcher, launch included.  The scheduler places *)
(* the allocations on its own: at once, later, or never.                   *)
(***************************************************************************)
\* the dispatcher is inside the while loop of collect_uuid
Polling(position) == position = "collect"

\* what the scheduler holds for a job that it has just accepted: no
\* allocation, or one allocation with this client status
Placements == {"none", "pending", "failed"}

\* handle_processing_task_input takes an item and create_nomad_job runs up to
\* the first request of collect_uuid
PollSubmit ==
    /\ Runs("handle_processing_task")
    /\ launcher.queue # <<>>
    /\ LET pt_input == Head(launcher.queue)
       IN  \E outcome \in Submits(pt_input) :
             IF outcome = "submitted"
             THEN /\ Cardinality(allocs) < MaxDispatch
                  /\ \E placed \in Placements :
                       allocs' = IF placed = "none" THEN allocs
                                 ELSE allocs \cup
                                        {[id |-> Cardinality(allocs) + 1, job |-> pt_input.id,
                                          submit |-> now, status |-> placed, known |-> TRUE]}
                  /\ launcher' = [launcher EXCEPT
                         !.queue = Tail(@),
                         !.tasks["handle_processing_task"] = "collect",
                         !.unit = [nomad_job_uuid |-> 0, processing_task_id |-> pt_input.id]]
             ELSE /\ launcher' = [launcher EXCEPT
                         !.queue = Tail(@),
                         !.alive = (outcome # "raise"),
                         !.tasks["handle_processing_task"] =
                             IF outcome = "raise" THEN "ended" ELSE @,
                         !.set = IF outcome = "raise" THEN @ ELSE @ \ {pt_input.id}]
                  /\ UNCHANGED allocs
    /\ UNCHANGED <<now, wekeo_api_manager, triggerer_config, user_interface, scheduler, harvester, upstream,
                   store, trig, orch>>

\* collect_uuid, one turn of "while not nomad_uuid": the allocations of the
\* job are read; with one running or pending the loop ends and the dispatch
\* row is inserted, otherwise the loop turns again
PollCollect ==
    /\ Polling(launcher.tasks["handle_processing_task"])
    /\ LET found == collect_uuid(allocs, launcher.unit.processing_task_id)
       IN  IF found = {}
           THEN UNCHANGED <<launcher, nomad_job_dispatch>>
           ELSE \E nomad_job_uuid \in found :
                  IF nomad_job_uuid \in nomad_job_dispatch
                  THEN /\ launcher' = [launcher EXCEPT
                              !.tasks["handle_processing_task"] = "get",
                              !.set = @ \ {launcher.unit.processing_task_id},
                              !.unit = NoUnit]
                       /\ UNCHANGED nomad_job_dispatch
                  ELSE /\ nomad_job_dispatch' = nomad_job_dispatch \cup {nomad_job_uuid}
                       /\ launcher' = [launcher EXCEPT
                              !.tasks["handle_processing_task"] = "dispatch_written",
                              !.unit.nomad_job_uuid = nomad_job_uuid]
    /\ UNCHANGED <<now, wekeo_api_manager, triggerer_config, user_interface, scheduler, harvester, upstream,
                   raw_inputs, trigger_validation, raw2valid, processing_tasks,
                   products, pt2nomad, psw, allocs, trig, orch>>

\* the scheduler places an allocation of a job that has none running or
\* pending
NomadPlaces(job) ==
    /\ job \in {pt.id : pt \in processing_tasks}
    /\ collect_uuid(allocs, job) = {}
    /\ Cardinality(allocs) < MaxDispatch
    /\ allocs' = allocs \cup {[id |-> Cardinality(allocs) + 1, job |-> job,
                               submit |-> now, status |-> "pending", known |-> TRUE]}
    /\ UNCHANGED <<now, wekeo_api_manager, triggerer_config, user_interface, scheduler, harvester, upstream,
                   store, trig, orch, launcher>>

\* the coroutines of the Launcher: they run while no coroutine holds the
\* event loop
LauncherSteps ==
    \/ CycleStartTasks
    \/ CycleStopTasks
    \/ \E task \in TaskNames : TaskCancelled(task)
    \/ ~Polling(launcher.tasks["handle_processing_task"]) /\ CycleHandleNotify
    \/ ~Polling(launcher.tasks["handle_processing_task"]) /\ CycleHandleUndispatchedPt
    \/ PollSubmit
    \/ PollCollect
    \/ DispatcherInsertEdge
    \/ DispatcherInsertStatus

InitPoll == InitLaunch

NextPoll ==
    \/ LauncherSteps
    \/ \E job \in 1..MaxTV : NomadPlaces(job)

\* the event loop runs a coroutine that is ready; nothing is assumed of the
\* scheduler
SpecPoll == InitPoll /\ [][NextPoll]_vars /\ WF_vars(LauncherSteps)

\* C36: the poll of collect_uuid ends: a dispatcher inside the loop leaves it,
\* with an allocation or on the stop signal, and the other activities of the
\* Launcher go on
C36_PollTerminates ==
    Polling(launcher.tasks["handle_processing_task"])
        ~> ~Polling(launcher.tasks["handle_processing_task"])

(***************************************************************************)
(* create_nomad_job from the item to the answer of the scheduler, the      *)
(* configuration file first.  The dispatcher stands at "config_written"    *)
(* when fill_conf_yaml has written the file and returned no status, at     *)
(* "config_none" when create_config_file_for_routine has returned None     *)
(* without a file.                                                         *)
(***************************************************************************)
\* the keys of the dispatch table of create_config_file_for_routine
handlers == {"SWS", "FSC", "WICS1", "WICS2", "CC", "WDS", "SIG0", "WICS1S2", "GFSC"}

\* pr.name of the rows of HCL_INFO_REQUEST: routines of the table
\* hrwsi.processing_routine, one of them without handler
Routines == {"CC", "SIG0", "L2A"}

\* what the handler and fill_conf_yaml of a routine do: an exception, a
\* handler that returns None, a status (auxiliaries missing), or the file
\* written and no status
HandlerOutcomes == {"raise", "None", "skip", "render_ok"}

\* HCL_INFO_REQUEST: one row per raw input of the validation of the task
HCL_INFO_REQUEST(trigger_validation_id) ==
    {r \in raw_inputs : <<trigger_validation_id, r.id>> \in raw2valid}

create_config_file_for_routine(hcl_info, routine, handled) ==
    IF hcl_info = {} THEN "None"
    ELSE IF routine \notin handlers THEN "None"
    ELSE handled

\* the Orchestrator's notification of a task reaches the session of
\* handle_notify
PtNotification(pt) ==
    /\ launcher.listening
    /\ pt \in processing_tasks
    /\ DispatchesOf(pt.id) = {}
    /\ PtPayload(pt) \notin Range(launcher.notifies)
    /\ Len(launcher.notifies) < MaxQueue
    /\ launcher' = [launcher EXCEPT !.notifies = Append(@, PtPayload(pt))]
    /\ UNCHANGED <<now, wekeo_api_manager, triggerer_config, user_interface, scheduler, harvester, upstream,
                   store, allocs, trig, orch>>

\* handle_processing_task_input takes an item and create_nomad_job runs up to
\* the return of create_config_file_for_routine
RenderConfig ==
    /\ Runs("handle_processing_task")
    /\ launcher.queue # <<>>
    /\ LET pt_input == Head(launcher.queue)
           hcl_info == HCL_INFO_REQUEST(pt_input.trigger_validation_fk_id)
       IN  IF IS_THIS_PT_CURRENTLY_DEPLOYED(pt_input.id)
           THEN launcher' = [launcher EXCEPT !.queue = Tail(@), !.set = @ \ {pt_input.id}]
           ELSE \E routine \in Routines, handled \in HandlerOutcomes :
                  LET status == create_config_file_for_routine(hcl_info, routine, handled)
                  IN  launcher' =
                        CASE status = "raise" ->
                               [launcher EXCEPT !.queue = Tail(@), !.alive = FALSE,
                                                !.tasks["handle_processing_task"] = "ended"]
                          [] status = "skip" ->
                               [launcher EXCEPT !.queue = Tail(@), !.set = @ \ {pt_input.id}]
                          [] OTHER ->
                               [launcher EXCEPT
                                   !.queue = Tail(@),
                                   !.tasks["handle_processing_task"] =
                                       IF status = "None" THEN "config_none"
                                       ELSE "config_written",
                                   !.unit = [nomad_job_uuid |-> 0,
                                             processing_task_id |-> pt_input.id]]
    /\ UNCHANGED <<now, wekeo_api_manager, triggerer_config, user_interface, scheduler, harvester, upstream,
                   store, allocs, trig, orch>>

\* create_nomad_job after "if status: return": the last row of the request
\* (IndexError without rows, which ends the dispatcher), the hcl file, and
\* the job sent to the scheduler, which returns an EvalID or none
SubmitJob ==
    /\ launcher.tasks["handle_processing_task"] \in {"config_none", "config_written"}
    /\ LET pt_id == launcher.unit.processing_task_id
           rows == HCL_INFO_REQUEST(PtById(pt_id).trigger_validation_fk_id)
       IN  IF rows = {}
           THEN /\ launcher' = [launcher EXCEPT !.alive = FALSE, !.unit = NoUnit,
                                                !.tasks["handle_processing_task"] = "ended"]
                /\ UNCHANGED allocs
           ELSE \E EvalID \in BOOLEAN :
                  IF EvalID
                  THEN /\ Cardinality(allocs) < MaxDispatch
                       /\ allocs' = allocs \cup
                              {[id |-> Cardinality(allocs) + 1, job |-> pt_id,
                                submit |-> now, status |-> "pending", known |-> TRUE]}
                       /\ launcher' = [launcher EXCEPT
                              !.tasks["handle_processing_task"] = "collect"]
                  ELSE /\ launcher' = [launcher EXCEPT
                              !.tasks["handle_processing_task"] = "get",
                              !.set = @ \ {pt_id}, !.unit = NoUnit]
                       /\ UNCHANGED allocs
    /\ UNCHANGED <<now, wekeo_api_manager, triggerer_config, user_interface, scheduler, harvester, upstream,
                   store, trig, orch>>

\* two tasks of one rule: the validation of task 1 has its input, the
\* validation of task 2 has no raw2valid row
InitRender ==
    /\ now = StartTime
    /\ triggerer_config = TriggererConfig(StartDay)
    /\ user_interface = NoUserInterface /\ scheduler = NoScheduler
    /\ InitParams
    /\ upstream = Deliveries({}, {})
    /\ \E i \in {"g1", "l2"} :
          LET tc_name == IF i = "g1" THEN "Backscatter_10m_TC" ELSE "CC_TC"
          IN  /\ raw_inputs = {RawInputRow(i, StartTime)}
              /\ trigger_validation =
                    {ValidationRow(tv_id, tc_name, RawInputRow(i, StartTime)) : tv_id \in 1..2}
              /\ raw2valid = {<<1, i>>}
              /\ launcher = LauncherOf(flavour_of(tc_name))
    /\ processing_tasks = {[id |-> id, trigger_validation_fk_id |-> id,
                            creation_date |-> StartTime, has_ended |-> FALSE,
                            processing_date |-> NoDay] : id \in 1..2}
    /\ products = {}
    /\ nomad_job_dispatch = {} /\ pt2nomad = {} /\ psw = {} /\ allocs = {}
    /\ trig = [pc |-> "down", consuming |-> TRUE, notifies |-> <<>>,
               queue |-> <<>>, orphan_ref |-> <<>>]
    /\ orch = [listening |-> FALSE, consuming |-> FALSE, notifies |-> <<>>, queue |-> <<>>]

NextRender ==
    \/ CycleStartTasks
    \/ CycleStopTasks
    \/ \E task \in TaskNames : TaskCancelled(task)
    \/ \E pt \in processing_tasks : PtNotification(pt)
    \/ Suspended(launcher.tasks["handle_processing_task"]) /\ CycleHandleNotify
    \/ RenderConfig
    \/ SubmitJob
    \/ PollCollect
    \/ DispatcherInsertEdge
    \/ DispatcherInsertStatus

SpecRender == InitRender /\ [][NextRender]_vars

\* C37: a job is submitted for a task only after its configuration file has
\* been written: no job is sent to the scheduler when
\* create_config_file_for_routine has produced nothing
C37_SubmittedOnlyAfterRender ==
    [][allocs' # allocs
          => launcher.tasks["handle_processing_task"] = "config_written"]_vars

\* the CC_TC validations a step creates, and the L1C each of them fires
CreatedCcValidations ==
    {t \in trigger_validation' \ trigger_validation : t.triggering_condition_name = "CC_TC"}
FiredL1c(t) ==
    {r \in raw_inputs : r.product_type_code = "S2MSI1C" /\ <<t.id, r.id>> \in raw2valid'}
\* the L1C without raw2valid row that validate_cc_tc accepts, before the step
EligibleUnprocessedL1c ==
    {r \in raw_inputs : /\ r.product_type_code = "S2MSI1C"
                        /\ ~\E e \in raw2valid : e[2] = r.id
                        /\ validate_cc_tc(r)}

\* C38: one pass of handle_l1c_raw_inputs creates at most one CC_TC validation
\* per tile, and the L1C it fires is an eligible unprocessed L1C of the tile
\* with the smallest measurement_day: no later L1C is fired while an earlier
\* eligible one of the tile is unprocessed
C38_OnePerTileEarliestFirst ==
    [][TriggererHandleL1cRawInputs =>
          /\ \A t1, t2 \in CreatedCcValidations :
                (\E r1 \in FiredL1c(t1), r2 \in FiredL1c(t2) : r1.tile = r2.tile) => t1 = t2
          /\ \A t \in CreatedCcValidations : \A r \in FiredL1c(t) :
                /\ r \in EligibleUnprocessedL1c
                /\ \A e \in EligibleUnprocessedL1c :
                      e.tile = r.tile => r.measurement_day <= e.measurement_day]_vars

\* l2 was harvested before l1 (their notifications wait in this order), the
\* pass has fired l1, measured the day before l2, and l2 is left unprocessed
C38_Witness ==
    /\ \E i, j \in DOMAIN trig.notifies :
          i < j /\ trig.notifies[i].id = "l2" /\ trig.notifies[j].id = "l1"
    /\ \E t \in trigger_validation :
          /\ t.triggering_condition_name = "CC_TC"
          /\ <<t.id, "l1">> \in raw2valid
    /\ ~\E e \in raw2valid : e[2] = "l2"

(***************************************************************************)
(* The Triggerer and two partial GRDH that are not adjacent: the catalog   *)
(* presents p1 and p4, two partials of one tile, day and orbit whose       *)
(* sensing times do not touch, at any time of the two hours.  The loops of *)
(* the Triggerer never end by themselves and the clock goes on.            *)
(***************************************************************************)
InitOrphan ==
    /\ now = StartTime
    /\ triggerer_config = TriggererConfig(StartDay)
    /\ user_interface = NoUserInterface /\ scheduler = NoScheduler
    /\ InitParams
    /\ upstream = Deliveries({"p1", "p4"}, {})
    /\ raw_inputs = {} /\ trigger_validation = {} /\ raw2valid = {}
    /\ processing_tasks = {} /\ products = {}
    /\ nomad_job_dispatch = {} /\ pt2nomad = {} /\ psw = {} /\ allocs = {}
    /\ trig = [pc |-> "running", consuming |-> TRUE, notifies |-> <<>>,
               queue |-> <<>>, orphan_ref |-> <<>>]
    /\ orch = [listening |-> FALSE, consuming |-> FALSE, notifies |-> <<>>, queue |-> <<>>]
    /\ launcher = LauncherOf("hma.large")

NextOrphan ==
    \/ \E i \in {"p1", "p4"} : HarvestInput(i)
    \/ TriggererHandleNotify
    \/ TriggererHandleRawInput
    \/ handle_grdh_raw_inputs
    \/ Tick(60)

SpecOrphan ==
    /\ InitOrphan /\ [][NextOrphan]_vars
    /\ WF_vars(TriggererHandleNotify) /\ WF_vars(TriggererHandleRawInput)
    /\ WF_vars(handle_grdh_raw_inputs)
    /\ WF_vars(Tick(60))

\* the partial i has been in the store for 2 hours and no validation
\* references it
UnpairedForTwoHours(i) ==
    \E r \in raw_inputs : /\ r.id = i /\ r.is_partial
                          /\ r.harvesting_date + TwoHours <= now
                          /\ ~\E e \in raw2valid : e[2] = i
\* a Backscatter_10m_TC validation has i as its only input
FiredAlone(i) ==
    \E t \in trigger_validation :
        /\ t.triggering_condition_name = "Backscatter_10m_TC"
        /\ InputsOfValidation(raw2valid, t.id) = {i}

\* C39: a partial IW_GRDH_1S that has stayed unpaired for 2 hours is fired
\* alone in the end, whatever other unprocessed partials of its tile, day and
\* orbit are in the store
C39_UnpairedPartialFiresAlone ==
    \A i \in {"p1", "p4"} : UnpairedForTwoHours(i) ~> FiredAlone(i)

====
